---------------------------- MODULE Spec2Model ----------------------------
(***************************************************************************)
(* Model of the monthly-notification script 250730_Acco_ApplyPayBill.js    *)
(* (Google Apps Script): the holiday cache, the send-date and deadline     *)
(* resolvers, the template renderer, the markdown converter and the send   *)
(* operations.                                                             *)
(*                                                                         *)
(* Conventions.                                                            *)
(*  - A JavaScript Date is modelled by its time value counted in whole     *)
(*    local days since 1970-01-01 (every Date the script builds is a local *)
(*    midnight); getFullYear/getMonth/getDate/getDay are computed from it. *)
(*  - A JavaScript string is a sequence of one-character strings.  A       *)
(*    character outside ASCII is written as its code point, "U5E74".       *)
(*  - An array of time values that the script only searches with indexOf   *)
(*    is modelled by the set of its elements.                              *)
(***************************************************************************)
EXTENDS Integers, Sequences, FiniteSets, TLC

VARIABLES
    pc,         \* "call": the arguments are chosen; "done": op has returned
    op,         \* the operation the arguments are for
    year,       \* argument year of the resolver / renderer call
    month,      \* argument month (1..12)
    holidays,   \* argument holidays: set of time values
    workdays,   \* argument workdays: set of time values
    markdown,   \* argument text of the converter call
    icalText,   \* argument icalData of the parser call, as text
    ret,        \* value returned by op
    trace,      \* values op computed on its way: the scan of a resolver
                \* [date, steps], the recipient and the rendering of a send
    props,      \* scriptProperties: the settings and the holiday cache
    log,        \* what the operation applied last wrote to the log
    outbox,     \* the calls of MailApp.sendEmail the operation applied last made
    clock       \* today: the day number that new Date() gives

argVars == <<year, month, holidays, workdays>>
vars == <<pc, op, year, month, holidays, workdays, markdown, icalText, ret, trace, props, log, outbox, clock>>

\* The sequence of the characters of a string literal
Chars(str) == [i \in 1..Len(str) |-> SubSeq(str, i, i)]

\* null where a Date is expected (no time value of the model is negative)
NullDate == -1

-----------------------------------------------------------------------------
(* Bounds of the model *)

MinYear == 2024
MaxYear == 2025
MaxGap == 1      \* a holiday run starts at most this many days off the anchor
MaxRun == 27     \* a holiday run ends at most this many days off the anchor
ScanLimit == 80  \* cap of the resolvers' loops in the model

Years == MinYear..MaxYear
Months == 1..12

-----------------------------------------------------------------------------
(* JavaScript Date *)

\* Day number of the civil date (y, m, d), m in 1..12; day 0 is 1970-01-01.
DaysFromCivil(y, m, d) ==
    LET yy  == IF m <= 2 THEN y - 1 ELSE y
        era == yy \div 400
        yoe == yy - era * 400
        mp  == IF m > 2 THEN m - 3 ELSE m + 9
        doy == (153 * mp + 2) \div 5 + d - 1
        doe == yoe * 365 + yoe \div 4 - yoe \div 100 + doy
    IN  era * 146097 + doe - 719468

\* The civil date [y, m, d] of a day number, m in 1..12.
CivilOfDay(n) ==
    LET z   == n + 719468
        era == z \div 146097
        doe == z - era * 146097
        yoe == (doe - doe \div 1460 + doe \div 36524 - doe \div 146096) \div 365
        doy == doe - (365 * yoe + yoe \div 4 - yoe \div 100)
        mp  == (5 * doy + 2) \div 153
        dd  == doy - (153 * mp + 2) \div 5 + 1
        mm  == IF mp < 10 THEN mp + 3 ELSE mp - 9
        yy  == yoe + era * 400
    IN  [y |-> IF mm <= 2 THEN yy + 1 ELSE yy, m |-> mm, d |-> dd]

\* The civil dates of the days the model can reach, computed once.
CivilTable ==
    [n \in DaysFromCivil(MinYear - 1, 1, 1)..DaysFromCivil(MaxYear + 2, 12, 31) |-> CivilOfDay(n)]

CivilFromDays(n) == CivilTable[n]

\* new Date(y, monthIndex, day): a two-digit year means 19xx, a month index
\* outside 0..11 carries into the year, a day outside the month carries on.
NewDate(y, monthIndex, day) ==
    LET fullYear == IF 0 <= y /\ y <= 99 THEN 1900 + y ELSE y
        ym == fullYear + (monthIndex \div 12)
        mn == monthIndex % 12
    IN  DaysFromCivil(ym, mn + 1, 1) + day - 1

GetFullYear(date) == CivilFromDays(date).y
GetMonth(date) == CivilFromDays(date).m - 1
GetDate(date) == CivilFromDays(date).d
\* 0 is Sunday; 1970-01-01 was a Thursday.
GetDay(date) == (date + 4) % 7
\* date.setDate(day)
SetDate(date, day) == DaysFromCivil(GetFullYear(date), GetMonth(date) + 1, 1) + day - 1
\* new Date(date.getFullYear(), date.getMonth(), date.getDate()).getTime()
GetTime(date) == NewDate(GetFullYear(date), GetMonth(date), GetDate(date))

-----------------------------------------------------------------------------
(* getSendDate *)

\* getSendDate as it would be with the holiday test left out of the loop
RECURSIVE SendScanWeekendOnly(_, _, _, _, _)
SendScanWeekendOnly(date, mon, hol, wrk, steps) ==
    LET time == GetTime(date)
        dayOfWeek == GetDay(date)
    IN  IF steps >= ScanLimit THEN [date |-> NullDate, steps |-> steps]
        ELSE IF (dayOfWeek = 0 \/ dayOfWeek = 6) /\ time \notin wrk
        THEN LET prev == SetDate(date, GetDate(date) - 1)
             IN  IF GetMonth(prev) + 1 # mon
                 THEN [date |-> NullDate, steps |-> steps + 1]
                 ELSE SendScanWeekendOnly(prev, mon, hol, wrk, steps + 1)
        ELSE [date |-> date, steps |-> steps]

\* getSendDate as it would be without the month test after stepping back
RECURSIVE SendScanNoMonthStop(_, _, _, _, _)
SendScanNoMonthStop(date, mon, hol, wrk, steps) ==
    LET time == GetTime(date)
        dayOfWeek == GetDay(date)
    IN  IF steps >= ScanLimit THEN [date |-> NullDate, steps |-> steps]
        ELSE IF (dayOfWeek = 0 \/ dayOfWeek = 6 \/ time \in hol) /\ time \notin wrk
        THEN SendScanNoMonthStop(SetDate(date, GetDate(date) - 1), mon, hol, wrk, steps + 1)
        ELSE [date |-> date, steps |-> steps]

\* The loop of getSendDate from `date` on; steps counts the setDate calls.
RECURSIVE SendScan(_, _, _, _, _)
SendScan(date, mon, hol, wrk, steps) ==
    LET time == GetTime(date)
        dayOfWeek == GetDay(date)
    IN  IF steps >= ScanLimit THEN [date |-> NullDate, steps |-> steps]
        ELSE IF (dayOfWeek = 0 \/ dayOfWeek = 6 \/ time \in hol) /\ time \notin wrk
        THEN LET prev == SetDate(date, GetDate(date) - 1)
             IN  IF GetMonth(prev) + 1 # mon
                 THEN [date |-> NullDate, steps |-> steps + 1]
                 ELSE SendScan(prev, mon, hol, wrk, steps + 1)
        ELSE [date |-> date, steps |-> steps]

GetSendDateScan(y, mon, hol, wrk) == SendScan(NewDate(y, mon - 1, 25), mon, hol, wrk, 0)

GetSendDate(y, mon, hol, wrk) ==
    LET r == GetSendDateScan(y, mon, hol, wrk).date
    IN  IF r = NullDate THEN NullDate ELSE NewDate(GetFullYear(r), GetMonth(r), GetDate(r))

-----------------------------------------------------------------------------
(* calculateDeadline *)

\* calculateDeadline as it would be with the weekend/holiday test made
\* before the workday test
RECURSIVE DeadlineScanHolidayFirst(_, _, _, _)
DeadlineScanHolidayFirst(deadline, hol, wrk, steps) ==
    LET deadlineTime == GetTime(deadline)
        dayOfWeek == GetDay(deadline)
    IN  IF steps >= ScanLimit THEN [date |-> deadline, steps |-> steps]
        ELSE IF (dayOfWeek = 6 \/ dayOfWeek = 0) \/ deadlineTime \in hol
        THEN DeadlineScanHolidayFirst(SetDate(deadline, GetDate(deadline) + 1), hol, wrk, steps + 1)
        ELSE [date |-> deadline, steps |-> steps]

\* calculateDeadline as it would be with a stop at the end of the month
RECURSIVE DeadlineScanMonthStop(_, _, _, _)
DeadlineScanMonthStop(deadline, hol, wrk, steps) ==
    LET deadlineTime == GetTime(deadline)
        dayOfWeek == GetDay(deadline)
        next == SetDate(deadline, GetDate(deadline) + 1)
    IN  IF steps >= ScanLimit THEN [date |-> deadline, steps |-> steps]
        ELSE IF deadlineTime \in wrk THEN [date |-> deadline, steps |-> steps]
        ELSE IF ((dayOfWeek = 6 \/ dayOfWeek = 0) \/ deadlineTime \in hol)
                /\ GetMonth(next) = GetMonth(deadline)
        THEN DeadlineScanMonthStop(next, hol, wrk, steps + 1)
        ELSE [date |-> deadline, steps |-> steps]

\* The loop of calculateDeadline from `deadline` on; steps counts the setDate
\* calls.  The loop of the script has no exit but its two breaks.
RECURSIVE DeadlineScan(_, _, _, _)
DeadlineScan(deadline, hol, wrk, steps) ==
    LET deadlineTime == GetTime(deadline)
        dayOfWeek == GetDay(deadline)
    IN  IF steps >= ScanLimit THEN [date |-> deadline, steps |-> steps]
        ELSE IF deadlineTime \in wrk THEN [date |-> deadline, steps |-> steps]
        ELSE IF (dayOfWeek = 6 \/ dayOfWeek = 0) \/ deadlineTime \in hol
        THEN DeadlineScan(SetDate(deadline, GetDate(deadline) + 1), hol, wrk, steps + 1)
        ELSE [date |-> deadline, steps |-> steps]

\* calculateDeadline as it would be anchored with the month index mon - 1
CalculateDeadlineScanSameMonth(y, mon, hol, wrk) ==
    DeadlineScan(NewDate(y, mon - 1, 5), hol, wrk, 0)

CalculateDeadlineScan(y, mon, hol, wrk) == DeadlineScan(NewDate(y, mon, 5), hol, wrk, 0)

DigitChars == <<"0", "1", "2", "3", "4", "5", "6", "7", "8", "9">>

\* String(n) of an integer n, in decimal
RECURSIVE NatToString(_)
NatToString(n) ==
    IF n < 10 THEN <<DigitChars[n + 1]>>
    ELSE NatToString(n \div 10) \o <<DigitChars[(n % 10) + 1]>>

NumberToString(n) == IF n < 0 THEN <<"-">> \o NatToString(0 - n) ELSE NatToString(n)

\* `${rocYear}年${nextMonth}月${day}日`
FormatDeadline(deadline) ==
    LET rocYear == GetFullYear(deadline) - 1911
        nextMonth == GetMonth(deadline) + 1
        day == GetDate(deadline)
    IN  NumberToString(rocYear) \o <<"U5E74">> \o NumberToString(nextMonth) \o <<"U6708">>
            \o NumberToString(day) \o <<"U65E5">>

\* calculateDeadline as it would be with the year part taken from the
\* argument year
CalculateDeadlineInputYear(y, mon, hol, wrk) ==
    LET deadline == CalculateDeadlineScan(y, mon, hol, wrk).date
    IN  NumberToString(y - 1911) \o <<"U5E74">> \o NumberToString(GetMonth(deadline) + 1)
            \o <<"U6708">> \o NumberToString(GetDate(deadline)) \o <<"U65E5">>

CalculateDeadline(y, mon, hol, wrk) ==
    FormatDeadline(CalculateDeadlineScan(y, mon, hol, wrk).date)

-----------------------------------------------------------------------------
(* scriptProperties, the log, the holiday cache *)

\* A property that is not set (getProperty gives null, a field of
\* getProperties() is undefined); no string of the model equals it.
Undefined == <<"undefined">>

\* JavaScript truthiness of a string or undefined
Truthy(s) == s # Undefined /\ s # <<>>

\* x || ''
OrEmpty(s) == IF Truthy(s) THEN s ELSE <<>>

\* The value of the property holidayCache: absent, or the JSON text of
\* {holidays, workdays}, or a text JSON.parse rejects.
NoCache == [kind |-> "absent", holidays |-> {}, workdays |-> {}]
JsonCache(hol, wrk) == [kind |-> "json", holidays |-> hol, workdays |-> wrk]
GarbageCache == [kind |-> "garbage", holidays |-> {}, workdays |-> {}]

\* The store with no property set
NoProps ==
    [recipient |-> Undefined, senderName |-> Undefined,
     subjectNormal |-> Undefined, bodyNormal |-> Undefined,
     subjectDecember |-> Undefined, bodyDecember |-> Undefined,
     holidayCache |-> NoCache, holidayCacheUpdated |-> NullDate]

\* { holidays: [], workdays: [] }
EmptyHolidayData == [holidays |-> {}, workdays |-> {}]

\* logError(e, context): console.error and Logger.log of `[context] message`
LogError(L, text, context) == Append(L, [level |-> "error", context |-> context, text |-> text])
\* console.log(message)
LogInfo(L, text) == Append(L, [level |-> "info", context |-> "", text |-> text])

\* parseHolidayData on the feed's event records.  A record stands for one
\* chunk of icalData.split('BEGIN:VEVENT'): dtstart (the chunk includes
\* 'DTSTART'), date (the match of DTSTART;VALUE=DATE:(\d{8}) as [y, m, d], or
\* <<>>), summary and description (the keywords the match of SUMMARY:(.+) and
\* of DESCRIPTION:(.+) include, or NoMatch).
NoMatch == {"no match"}

\* parseHolidayData as it would be with the test for a holiday made before
\* the test for a make-up workday
ParseHolidayDataHolidayFirst(icalData) ==
    LET Usable(e) == e.dtstart /\ e.date # <<>> /\ e.summary # NoMatch /\ e.description # NoMatch
        DateOf(e) == NewDate(e.date[1], e.date[2] - 1, e.date[3])
        Holiday(e) == \/ "national" \in e.description
                      \/ "shift" \in e.summary
                      \/ "libai" \in e.summary
        evs == {icalData[i] : i \in 1..Len(icalData)}
    IN  [holidays |-> {DateOf(e) : e \in {x \in evs : Usable(x) /\ Holiday(x)}},
         workdays |-> {DateOf(e) : e \in {x \in evs : /\ Usable(x)
                                                      /\ ~Holiday(x)
                                                      /\ "makeup" \in x.summary}}]

ParseHolidayData(icalData) ==
    LET Usable(e) == e.dtstart /\ e.date # <<>> /\ e.summary # NoMatch /\ e.description # NoMatch
        DateOf(e) == NewDate(e.date[1], e.date[2] - 1, e.date[3])
        evs == {icalData[i] : i \in 1..Len(icalData)}
    IN  [holidays |-> {DateOf(e) : e \in {x \in evs : /\ Usable(x)
                                                      /\ "makeup" \notin x.summary
                                                      /\ \/ "national" \in x.description
                                                         \/ "shift" \in x.summary
                                                         \/ "libai" \in x.summary}},
         workdays |-> {DateOf(e) : e \in {x \in evs : Usable(x) /\ "makeup" \in x.summary}}]

\* updateHolidayCache as it would be if a failed fetch stored empty sets
UpdateHolidayCacheErasing(P, L, fetch, time) ==
    IF fetch.ok
    THEN LET parsed == ParseHolidayData(fetch.events)
         IN  [props |-> [P EXCEPT !.holidayCache = JsonCache(parsed.holidays, parsed.workdays),
                                  !.holidayCacheUpdated = time],
              log |-> LogInfo(L, "holiday cache updated"),
              fetches |-> 1]
    ELSE [props |-> [P EXCEPT !.holidayCache = JsonCache({}, {}),
                              !.holidayCacheUpdated = time],
          log |-> LogError(L, "fetch failed", "updateHolidayCache"), fetches |-> 1]

\* updateHolidayCache with the outcome `fetch` of UrlFetchApp.fetch and the
\* `time` of new Date(): gives the properties and the log after it, and the
\* number of calls of UrlFetchApp.fetch it made.
UpdateHolidayCache(P, L, fetch, time) ==
    IF fetch.ok
    THEN LET parsed == ParseHolidayData(fetch.events)
         IN  [props |-> [P EXCEPT !.holidayCache = JsonCache(parsed.holidays, parsed.workdays),
                                  !.holidayCacheUpdated = time],
              log |-> LogInfo(L, "holiday cache updated"),
              fetches |-> 1]
    ELSE [props |-> P, log |-> LogError(L, "fetch failed", "updateHolidayCache"), fetches |-> 1]

\* getCachedHolidayData as it would be if it refreshed a stored record too
GetCachedHolidayDataAlwaysFresh(P, L, fetch, time) ==
    LET u == UpdateHolidayCache(P, L, fetch, time)
        cache2 == u.props.holidayCache
    IN  [data |-> IF cache2.kind = "json"
                  THEN [holidays |-> cache2.holidays, workdays |-> cache2.workdays]
                  ELSE EmptyHolidayData,
         props |-> u.props, log |-> u.log, fetches |-> u.fetches]

\* getCachedHolidayData as it would be if it called updateHolidayCache once
\* more after a refresh that stored nothing
GetCachedHolidayDataRetry(P, L, fetch, time) ==
    IF P.holidayCache.kind = "json"
    THEN [data |-> [holidays |-> P.holidayCache.holidays, workdays |-> P.holidayCache.workdays],
          props |-> P, log |-> L, fetches |-> 0]
    ELSE LET u == UpdateHolidayCache(P, L, fetch, time)
             v == IF u.props.holidayCache.kind = "json" THEN u
                  ELSE [UpdateHolidayCache(u.props, u.log, fetch, time) EXCEPT !.fetches = 2]
         IN  [data |-> IF v.props.holidayCache.kind = "json"
                       THEN [holidays |-> v.props.holidayCache.holidays,
                             workdays |-> v.props.holidayCache.workdays]
                       ELSE EmptyHolidayData,
              props |-> v.props, log |-> v.log, fetches |-> v.fetches]

\* getCachedHolidayData: gives the data returned, the properties and the
\* log after it, and the number of calls of UrlFetchApp.fetch made.
GetCachedHolidayData(P, L, fetch, time) ==
    IF P.holidayCache.kind = "json"
    THEN [data |-> [holidays |-> P.holidayCache.holidays, workdays |-> P.holidayCache.workdays],
          props |-> P, log |-> L, fetches |-> 0]
    ELSE IF P.holidayCache.kind = "garbage"
    THEN [data |-> EmptyHolidayData, props |-> P,
          log |-> LogError(L, "JSON.parse failed", "getCachedHolidayData"), fetches |-> 0]
    ELSE LET u == UpdateHolidayCache(P, L, fetch, time)
             cache2 == u.props.holidayCache
         IN  [data |-> IF cache2.kind = "json"
                       THEN [holidays |-> cache2.holidays, workdays |-> cache2.workdays]
                       ELSE EmptyHolidayData,
              props |-> u.props, log |-> u.log, fetches |-> u.fetches]

-----------------------------------------------------------------------------
(* processEmailTemplates *)

\* The patterns /{{rocYear}}/g, /{{currentMonth}}/g, /{{nextRocYear}}/g and
\* /{{deadlineDate}}/g: each matches its own text only.
TokRocYear == Chars("{{rocYear}}")
TokCurrentMonth == Chars("{{currentMonth}}")
TokNextRocYear == Chars("{{nextRocYear}}")
TokDeadlineDate == Chars("{{deadlineDate}}")

\* pat occurs in s at index i
MatchAt(s, pat, i) == i + Len(pat) - 1 <= Len(s) /\ SubSeq(s, i, i + Len(pat) - 1) = pat

\* The least element of hits in lo..hi, or hi + 1 when there is none
FirstIn(hits, lo, hi) ==
    IF lo > hi THEN hi + 1
    ELSE CHOOSE j \in lo..(hi + 1) :
             (j = hi + 1 \/ j \in hits) /\ \A k \in lo..(j - 1) : k \notin hits

\* s.replace(/pat/, rep), pat a literal: replace without the g flag
ReplaceFirst(s, pat, rep) ==
    LET j == FirstIn({k \in 1..Len(s) : MatchAt(s, pat, k)}, 1, Len(s))
    IN  IF j > Len(s) THEN s
        ELSE SubSeq(s, 1, j - 1) \o rep \o SubSeq(s, j + Len(pat), Len(s))

\* s.replace(/pat/g, rep), pat a literal, from index i of s on: the search
\* goes on after each match; what no match covers is copied
RECURSIVE ReplaceAllFrom(_, _, _, _)
ReplaceAllFrom(s, pat, rep, i) ==
    LET j == FirstIn({k \in 1..Len(s) : MatchAt(s, pat, k)}, i, Len(s))
    IN  IF j > Len(s) THEN SubSeq(s, i, Len(s))
        ELSE SubSeq(s, i, j - 1) \o rep \o ReplaceAllFrom(s, pat, rep, j + Len(pat))

ReplaceAll(s, pat, rep) == ReplaceAllFrom(s, pat, rep, 1)

\* The replacements of processEmailTemplates in the order it makes them on a
\* template, each the token and the string put for it, given the month and
\* year of `now` and the holiday data
TokenValues(currentYear, currentMonth, holidayData) ==
    IF currentMonth = 12
    THEN <<(<<TokNextRocYear, NumberToString((currentYear - 1911) + 1)>>),
           (<<TokDeadlineDate, CalculateDeadline(currentYear, 12, holidayData.holidays,
                                                 holidayData.workdays)>>),
           (<<TokRocYear, NumberToString(currentYear - 1911)>>),
           (<<TokCurrentMonth, NumberToString(currentMonth)>>)>>
    ELSE <<(<<TokDeadlineDate, CalculateDeadline(currentYear, currentMonth, holidayData.holidays,
                                                 holidayData.workdays)>>),
           (<<TokRocYear, NumberToString(currentYear - 1911)>>),
           (<<TokCurrentMonth, NumberToString(currentMonth)>>)>>

\* s after the replacements from the k-th of `values` on
RECURSIVE ReplaceTokens(_, _, _)
ReplaceTokens(s, values, k) ==
    IF k > Len(values) THEN s
    ELSE ReplaceTokens(ReplaceAll(s, values[k][1], values[k][2]), values, k + 1)

\* The substitutions of processEmailTemplates on one template
RenderTemplate(template, currentYear, currentMonth, holidayData) ==
    ReplaceTokens(OrEmpty(template), TokenValues(currentYear, currentMonth, holidayData), 1)

\* processEmailTemplates as it would be with the year-end test off by one
\* (now.getMonth() === 12)
ProcessEmailTemplatesMonthIndex(settings, y, mon, today, holidayData) ==
    LET now == IF y # 0 /\ mon # 0 THEN NewDate(y, mon - 1, 1) ELSE today
        currentMonth == GetMonth(now) + 1
        currentYear == GetFullYear(now)
    IN  [subject |-> RenderTemplate(settings.subjectNormal, currentYear, currentMonth, holidayData),
         body |-> RenderTemplate(settings.bodyNormal, currentYear, currentMonth, holidayData)]

\* processEmailTemplates(settings, year, month) with `today` the value of
\* new Date() and holidayData the value getCachedHolidayData returned
ProcessEmailTemplates(settings, y, mon, today, holidayData) ==
    LET now == IF y # 0 /\ mon # 0 THEN NewDate(y, mon - 1, 1) ELSE today
        currentMonth == GetMonth(now) + 1
        currentYear == GetFullYear(now)
    IN  IF currentMonth = 12
        THEN [subject |-> RenderTemplate(settings.subjectDecember, currentYear, currentMonth, holidayData),
              body |-> RenderTemplate(settings.bodyDecember, currentYear, currentMonth, holidayData)]
        ELSE [subject |-> RenderTemplate(settings.subjectNormal, currentYear, currentMonth, holidayData),
              body |-> RenderTemplate(settings.bodyNormal, currentYear, currentMonth, holidayData)]

-----------------------------------------------------------------------------
(* markdownToHtml *)

\* The line terminators, which `.` does not match, and the white space \s
\* matches, among the characters of the model
LineTerminators == {"\n", "\r", "U2028", "U2029"}
Spaces == {" ", "\t", "\n", "\r", "U2028", "U2029", "U00A0", "U3000"}

\* The least index of s from i on whose character is in chars (SkipUntil),
\* is not in chars (SkipWhile), or Len(s) + 1
SkipUntil(s, chars, i) == FirstIn({j \in 1..Len(s) : s[j] \in chars}, i, Len(s))
SkipWhile(s, chars, i) == FirstIn({j \in 1..Len(s) : s[j] \notin chars}, i, Len(s))

Max(S) == CHOOSE x \in S : \A y \in S : x >= y

AmpEntity == Chars("&amp;")
LtEntity == Chars("&lt;")
GtEntity == Chars("&gt;")

\* the escapes as they would be with the one of `<` left out
EscapeHtmlNoLt(text) ==
    ReplaceAll(ReplaceAll(text, <<"&">>, AmpEntity), <<">">>, GtEntity)

\* text.replace(/&/g, '&amp;').replace(/</g, '&lt;').replace(/>/g, '&gt;')
EscapeHtml(text) ==
    ReplaceAll(ReplaceAll(ReplaceAll(text, <<"&">>, AmpEntity), <<"<">>, LtEntity),
               <<">">>, GtEntity)

Stars == Chars("**")
RedMarker == Stars \o <<"U7D05", "U5B57">> \o Stars
YellowMarker == Stars \o <<"U9EC3", "U5E95">> \o Stars
RedSpan == Chars("<span style=\"background-color:#ffff00; color:#cc0000; font-weight:bold;\">")
YellowSpan == Chars("<span style=\"background-color:#ffff00; color:#000000; font-weight:bold;\">")
SpanEnd == Chars("</span>")
StrongTag == Chars("<strong>")
StrongEnd == Chars("</strong>")
AnchorHref == Chars("<a href=\"")
AnchorTarget == Chars("\" target=\"_blank\">")
AnchorEnd == Chars("</a>")
LiTag == Chars("<li>")
LiEnd == Chars("</li>")
UlTag == Chars("<ul>")
UlEnd == Chars("</ul>")
BrNewline == Chars("<br>\n")

\* /marker(.+?)marker/ at index i of s: <<end, close>> with end the index
\* after the match and close the index where the closing marker begins (the
\* nearest one with a character before it and no line terminator in
\* between), or <<>> for no match at i
PairedMatch(s, marker, i) ==
    IF ~MatchAt(s, marker, i) THEN <<>>
    ELSE LET from == i + Len(marker)
             eol == SkipUntil(s, LineTerminators, from)
             close == FirstIn({j \in 1..Len(s) : MatchAt(s, marker, j)}, from + 1, eol - 1)
         IN  IF close > eol - 1 THEN <<>> ELSE <<close + Len(marker), close>>

\* /\*\*([^*]+)\*\*/ at index i of s: <<end, close>> with close the index
\* where the closing ** begins
BoldMatch(s, i) ==
    IF ~MatchAt(s, Stars, i) THEN <<>>
    ELSE LET close == SkipUntil(s, {"*"}, i + 2)
         IN  IF close > i + 2 /\ MatchAt(s, Stars, close) THEN <<close + 2, close>> ELSE <<>>

\* /\x5B([^\\]+?)\x5D\(([^)]+?)\)/ at index i of s: <<end, close, paren>>
\* with close the index of the `]` that ends the label and paren the index of
\* the `)` that ends the url.  The label takes any character but a backslash
\* and ends at the first `](` after which a url (one character or more, none
\* a `)`) and a `)` follow.
LinkMatch(s, i) ==
    IF s[i] # "[" THEN <<>>
    ELSE LET stop == SkipUntil(s, {"\\"}, i + 1)
             UrlEnd(j) == SkipUntil(s, {")"}, j + 2)
             closes == {j \in 1..Len(s) : /\ s[j] = "]"
                                          /\ j + 2 <= Len(s)
                                          /\ s[j + 1] = "("
                                          /\ s[j + 2] # ")"
                                          /\ UrlEnd(j) <= Len(s)}
             close == FirstIn(closes, i + 2, stop - 1)
         IN  IF close > stop - 1 THEN <<>> ELSE <<UrlEnd(close) + 1, close, UrlEnd(close)>>

\* /^\s*[l•-]\s+(.*)/m at index i of s: <<end, from>> with from the index
\* where the captured text begins and end the end of that line.  ^ is the
\* start of the text or of a line; both runs of \s may run over line ends.
ListItemMatch(s, i) ==
    IF ~(i = 1 \/ s[i - 1] \in LineTerminators) THEN <<>>
    ELSE LET bullet == SkipWhile(s, Spaces, i)
         IN  IF bullet > Len(s) \/ s[bullet] \notin {"l", "U2022", "-"} THEN <<>>
             ELSE LET from == SkipWhile(s, Spaces, bullet + 1)
                  IN  IF from = bullet + 1 THEN <<>>
                      ELSE <<SkipUntil(s, LineTerminators, from), from>>

\* One round of (<li>.*<\/li>\s*) at index i of s: the index after it, or 0.
\* `.*` stays on the line and gives back to the last </li> of it; \s* takes
\* all the white space that follows.
ItemRound(s, i) ==
    IF ~MatchAt(s, LiTag, i) THEN 0
    ELSE LET eol == SkipUntil(s, LineTerminators, i)
             ends == {j \in (i + Len(LiTag))..(eol - Len(LiEnd)) : MatchAt(s, LiEnd, j)}
         IN  IF ends = {} THEN 0 ELSE SkipWhile(s, Spaces, Max(ends) + Len(LiEnd))

\* The rounds of /(<li>.*<\/li>\s*)+/ from index i of s on, one round made:
\* the index after the last of them
RECURSIVE ItemRounds(_, _)
ItemRounds(s, i) ==
    LET next == ItemRound(s, i)
    IN  IF next = 0 THEN i ELSE ItemRounds(s, next)

\* /(<li>.*<\/li>\s*)+/ at index i of s: <<end>>
ListMatch(s, i) ==
    IF ItemRound(s, i) = 0 THEN <<>> ELSE <<ItemRounds(s, ItemRound(s, i))>>

\* /\r\n|\n|\r/ at index i of s: <<end>>
NewlineMatch(s, i) ==
    IF MatchAt(s, <<"\r", "\n">>, i) THEN <<i + 2>>
    ELSE IF s[i] \in {"\n", "\r"} THEN <<i + 1>>
    ELSE <<>>

\* The patterns of markdownToHtml but the literal ones, each with the match
\* of it at index i of s (<<>> for none, else a tuple that begins with the
\* index after the match) and what replaces the match m at i
RedRule == [kind |-> "paired", marker |-> RedMarker, open |-> RedSpan]
YellowRule == [kind |-> "paired", marker |-> YellowMarker, open |-> YellowSpan]
BoldRule == [kind |-> "bold"]
LinkRule == [kind |-> "link"]
ListItemRule == [kind |-> "item"]
ListRule == [kind |-> "list"]
NewlineRule == [kind |-> "newline"]

MatchOf(rule, s, i) ==
    CASE rule.kind = "paired" -> PairedMatch(s, rule.marker, i)
      [] rule.kind = "bold" -> BoldMatch(s, i)
      [] rule.kind = "link" -> LinkMatch(s, i)
      [] rule.kind = "item" -> ListItemMatch(s, i)
      [] rule.kind = "list" -> ListMatch(s, i)
      [] rule.kind = "newline" -> NewlineMatch(s, i)

Replacement(rule, s, i, m) ==
    CASE rule.kind = "paired" ->
            \* open + '$1</span>'
            rule.open \o SubSeq(s, i + Len(rule.marker), m[2] - 1) \o SpanEnd
      [] rule.kind = "bold" ->
            \* '<strong>$1</strong>'
            StrongTag \o SubSeq(s, i + 2, m[2] - 1) \o StrongEnd
      [] rule.kind = "link" ->
            \* '<a href="$2" target="_blank">$1</a>'
            AnchorHref \o SubSeq(s, m[2] + 2, m[3] - 1) \o AnchorTarget
                \o SubSeq(s, i + 1, m[2] - 1) \o AnchorEnd
      [] rule.kind = "item" ->
            \* '<li>$1</li>'
            LiTag \o SubSeq(s, m[2], m[1] - 1) \o LiEnd
      [] rule.kind = "list" ->
            \* '<ul>$&</ul>'
            UlTag \o SubSeq(s, i, m[1] - 1) \o UlEnd
      [] rule.kind = "newline" -> BrNewline

\* s.replace(pattern, replacement) for a global pattern, from index i of s
\* on: the search goes on after each match; what no match covers is copied
RECURSIVE ReplaceMatchesFrom(_, _, _)
ReplaceMatchesFrom(s, rule, i) ==
    LET j == FirstIn({k \in 1..Len(s) : MatchOf(rule, s, k) # <<>>}, i, Len(s))
    IN  IF j > Len(s) THEN SubSeq(s, i, Len(s))
        ELSE LET m == MatchOf(rule, s, j)
             IN  SubSeq(s, i, j - 1) \o Replacement(rule, s, j, m)
                   \o ReplaceMatchesFrom(s, rule, m[1])

ReplaceMatches(s, rule) == ReplaceMatchesFrom(s, rule, 1)

\* The patterns in the order markdownToHtml replaces them
MarkdownRules ==
    <<RedRule, YellowRule, BoldRule, LinkRule, ListItemRule, ListRule, NewlineRule>>

\* s after the replacements from the k-th of `rules` on
RECURSIVE ReplaceRules(_, _, _)
ReplaceRules(s, rules, k) ==
    IF k > Len(rules) THEN s
    ELSE ReplaceRules(ReplaceMatches(s, rules[k]), rules, k + 1)

\* markdownToHtml after the escapes as it would be with no cleanup around
\* the lists
ConvertMarkersNoCleanup(escaped) == ReplaceRules(escaped, MarkdownRules, 1)

\* markdownToHtml after the escapes, on the escaped text: the patterns, then
\* the two literal replacements around <ul> and </ul>
ConvertMarkers(escaped) ==
    ReplaceAll(ReplaceAll(ReplaceRules(escaped, MarkdownRules, 1), BrNewline \o UlTag, UlTag),
               UlEnd \o BrNewline, UlEnd)

\* markdownToHtml as it would be if it returned the text itself where it
\* has none
MarkdownToHtmlTextReturned(text) ==
    IF ~Truthy(text) THEN text ELSE ConvertMarkers(EscapeHtml(text))

\* markdownToHtml(text), text a string or undefined
MarkdownToHtml(text) ==
    IF ~Truthy(text) THEN <<>> ELSE ConvertMarkers(EscapeHtml(text))

-----------------------------------------------------------------------------
(* parseHolidayData on the text of the feed *)

KeyBeginEvent == Chars("BEGIN:VEVENT")
KeyDtstart == Chars("DTSTART")
KeyDtstartDate == Chars("DTSTART;VALUE=DATE:")
KeySummary == Chars("SUMMARY:")
KeyDescription == Chars("DESCRIPTION:")

\* The words parseHolidayData looks for in a summary or a description, each
\* under the name the event records have for it
WordText ==
    [makeup |-> <<"U88DC", "U73ED">>,
     national |-> <<"U570B", "U5B9A", "U5047", "U65E5">>,
     shift |-> <<"U88DC", "U5047">>,
     libai |-> <<"U5382", "U793C", "U62DC">>]

\* s.includes(pat)
Includes(s, pat) == pat = <<>> \/ \E i \in 1..Len(s) : MatchAt(s, pat, i)

\* s.split(sep) from index i of s on, sep not empty
RECURSIVE SplitFrom(_, _, _)
SplitFrom(s, sep, i) ==
    LET j == FirstIn({k \in 1..Len(s) : MatchAt(s, sep, k)}, i, Len(s))
    IN  IF j > Len(s) THEN <<SubSeq(s, i, Len(s))>>
        ELSE <<SubSeq(s, i, j - 1)>> \o SplitFrom(s, sep, j + Len(sep))

Split(s, sep) == SplitFrom(s, sep, 1)

\* s.trim()
Trim(s) ==
    LET from == SkipWhile(s, Spaces, 1)
    IN  IF from > Len(s) THEN <<>>
        ELSE SubSeq(s, from, Max({j \in 1..Len(s) : s[j] \notin Spaces}))

\* event.match(/key(.+)/)[1] for the first match in event: the rest of the
\* line after key, one character at least; <<>> where there is no match
FieldMatch(event, key) ==
    LET hits == {k \in 1..Len(event) : /\ MatchAt(event, key, k)
                                       /\ k + Len(key) <= Len(event)
                                       /\ event[k + Len(key)] \notin LineTerminators}
        k == FirstIn(hits, 1, Len(event))
    IN  IF k > Len(event) THEN <<>>
        ELSE SubSeq(event, k + Len(key), SkipUntil(event, LineTerminators, k + Len(key)) - 1)

\* event.match(/DTSTART;VALUE=DATE:(\d{8})/)[1]: the eight digits, or <<>>
DateMatch(event) ==
    LET from(k) == k + Len(KeyDtstartDate)
        hits == {k \in 1..Len(event) :
                    /\ MatchAt(event, KeyDtstartDate, k)
                    /\ from(k) + 7 <= Len(event)
                    /\ \A j \in from(k)..(from(k) + 7) :
                          \E v \in 1..10 : DigitChars[v] = event[j]}
        k == FirstIn(hits, 1, Len(event))
    IN  IF k > Len(event) THEN <<>> ELSE SubSeq(event, from(k), from(k) + 7)

\* parseInt(ds) of a string of decimal digits
RECURSIVE ParseInt(_)
ParseInt(ds) ==
    IF ds = <<>> THEN 0
    ELSE 10 * ParseInt(SubSeq(ds, 1, Len(ds) - 1))
            + (CHOOSE v \in 0..9 : DigitChars[v + 1] = ds[Len(ds)])

\* The event record of one chunk of the split: what the tests and matches
\* of parseHolidayData find in it
EventRecord(event) ==
    LET summaryMatch == FieldMatch(event, KeySummary)
        descriptionMatch == FieldMatch(event, KeyDescription)
        dateStr == DateMatch(event)
        Words(s) == {w \in DOMAIN WordText : Includes(Trim(s), WordText[w])}
    IN  [dtstart |-> Includes(event, KeyDtstart),
         date |-> IF dateStr = <<>> THEN <<>>
                  ELSE <<ParseInt(SubSeq(dateStr, 1, 4)), ParseInt(SubSeq(dateStr, 5, 6)),
                         ParseInt(SubSeq(dateStr, 7, 8))>>,
         summary |-> IF summaryMatch = <<>> THEN NoMatch ELSE Words(summaryMatch),
         description |-> IF descriptionMatch = <<>> THEN NoMatch ELSE Words(descriptionMatch)]

\* The event records of icalData.split('BEGIN:VEVENT')
EventRecords(text) ==
    LET events == Split(text, KeyBeginEvent)
    IN  [i \in 1..Len(events) |-> EventRecord(events[i])]

\* parseHolidayData(icalData), icalData the text of the feed
ParseHolidayText(text) == ParseHolidayData(EventRecords(text))

-----------------------------------------------------------------------------
(* _coreSendEmail, sendMonthlyEmail, sendPreviewToSelf *)

HtmlOpen == Chars("<html><body>")
HtmlClose == Chars("</body></html>")

\* What a send operation gives: the properties, the log and the calls of
\* MailApp.sendEmail after it, with the recipient it settled on, how far it
\* went and what processEmailTemplates returned to it (NoRendering when it
\* was not called).
NoRendering == [subject |-> Undefined, body |-> Undefined]
Outcome(P, L, recipient, stage) ==
    [props |-> P, log |-> L, outbox |-> <<>>, recipient |-> recipient, stage |-> stage,
     rendered |-> NoRendering]

\* _coreSendEmail from its test of the settings on, as it would be with no
\* test of the subject
DeliverNoSubjectTest(P, recipient, env, g, rendered) ==
    IF ~Truthy(recipient) \/ ~Truthy(rendered.body) \/ ~env.mailOk
    THEN [Outcome(g.props, LogError(g.log, "not sent", "_coreSendEmail"), recipient, "core")
            EXCEPT !.rendered = rendered]
    ELSE [Outcome(g.props, LogInfo(g.log, "mail sent"), recipient, "core")
            EXCEPT !.rendered = rendered,
                   !.outbox = <<[to |-> recipient, subject |-> rendered.subject,
                                 htmlBody |-> HtmlOpen \o MarkdownToHtml(rendered.body)
                                                \o env.signature \o HtmlClose,
                                 name |-> P.senderName]>>]

\* _coreSendEmail from its test of the settings on as it would be if the
\* exception of MailApp.sendEmail were caught and not logged
DeliverSendErrorSwallowed(P, recipient, env, g, rendered) ==
    IF ~Truthy(recipient) \/ ~Truthy(rendered.subject) \/ ~Truthy(rendered.body)
    THEN [Outcome(g.props, LogError(g.log, "settings missing", "_coreSendEmail"), recipient, "core")
            EXCEPT !.rendered = rendered]
    ELSE IF ~env.mailOk
    THEN [Outcome(g.props, g.log, recipient, "core") EXCEPT !.rendered = rendered]
    ELSE [Outcome(g.props, LogInfo(g.log, "mail sent"), recipient, "core")
            EXCEPT !.rendered = rendered,
                   !.outbox = <<[to |-> recipient, subject |-> rendered.subject,
                                 htmlBody |-> HtmlOpen \o MarkdownToHtml(rendered.body)
                                                \o env.signature \o HtmlClose,
                                 name |-> P.senderName]>>]

\* _coreSendEmail from its test of the settings on: g is what
\* getCachedHolidayData gave inside processEmailTemplates and rendered what
\* processEmailTemplates returned.  The Error thrown for a missing setting
\* and the one MailApp.sendEmail throws are caught and logged.
Deliver(P, recipient, env, g, rendered) ==
    IF ~Truthy(recipient) \/ ~Truthy(rendered.subject) \/ ~Truthy(rendered.body)
    THEN [Outcome(g.props, LogError(g.log, "settings missing", "_coreSendEmail"), recipient, "core")
            EXCEPT !.rendered = rendered]
    ELSE IF ~env.mailOk
    THEN [Outcome(g.props, LogError(g.log, "sendEmail failed", "_coreSendEmail"), recipient, "core")
            EXCEPT !.rendered = rendered]
    ELSE [Outcome(g.props, LogInfo(g.log, "mail sent"), recipient, "core")
            EXCEPT !.rendered = rendered,
                   !.outbox = <<[to |-> recipient, subject |-> rendered.subject,
                                 htmlBody |-> HtmlOpen \o MarkdownToHtml(rendered.body)
                                                \o env.signature \o HtmlClose,
                                 name |-> P.senderName]>>]

\* processEmailTemplates(settings, year, month) as _coreSendEmail calls it,
\* g what its getCachedHolidayData gave
RenderWith(P, y, mon, env, g) == ProcessEmailTemplates(P, y, mon, env.now, g.data)

\* _coreSendEmail as it would be with no test of the subject
CoreSendEmailWithNoSubjectTest(P, recipient, y, mon, env, g) ==
    DeliverNoSubjectTest(P, recipient, env, g, RenderWith(P, y, mon, env, g))

CoreSendEmailNoSubjectTest(P, L, recipient, isTriggered, y, mon, env) ==
    CoreSendEmailWithNoSubjectTest(P, recipient, y, mon, env,
                                   GetCachedHolidayData(P, L, env.fetch, env.now))

CoreSendEmailWith(P, recipient, y, mon, env, g) ==
    Deliver(P, recipient, env, g, RenderWith(P, y, mon, env, g))

\* _coreSendEmail(recipient, isTriggered, year, month) on properties P and
\* log L.  env gives what the services answer: fetch (UrlFetchApp.fetch), now
\* (new Date()), signature (getGmailSignature(), '' when the lookup fails)
\* and mailOk (MailApp.sendEmail returns, or throws).
CoreSendEmail(P, L, recipient, isTriggered, y, mon, env) ==
    CoreSendEmailWith(P, recipient, y, mon, env,
                      GetCachedHolidayData(P, L, env.fetch, env.now))

\* sendMonthlyEmail from its test of sendDate on as it would be with no test
\* of today against sendDate
SendMonthlyEmailOnAnyDay(env, g, sendDate) ==
    IF sendDate = NullDate
    THEN Outcome(g.props, LogError(g.log, "no valid send date", "sendMonthlyEmail"),
                 Undefined, "skipped")
    ELSE IF ~Truthy(g.props.recipient)
    THEN Outcome(g.props, LogError(g.log, "recipient not set", "sendMonthlyEmail"),
                 g.props.recipient, "recipient")
    ELSE CoreSendEmail(g.props, LogInfo(g.log, "send day"), g.props.recipient,
                       TRUE, GetFullYear(env.now), GetMonth(env.now) + 1, env)

\* sendMonthlyEmail from its test of sendDate on as it would be if it sent
\* on every day from sendDate on
SendMonthlyEmailOnOrAfter(env, g, sendDate) ==
    IF sendDate = NullDate
    THEN Outcome(g.props, LogError(g.log, "no valid send date", "sendMonthlyEmail"),
                 Undefined, "skipped")
    ELSE IF env.now >= sendDate
    THEN IF ~Truthy(g.props.recipient)
         THEN Outcome(g.props, LogError(g.log, "recipient not set", "sendMonthlyEmail"),
                      g.props.recipient, "recipient")
         ELSE CoreSendEmail(g.props, LogInfo(g.log, "send day"), g.props.recipient,
                            TRUE, GetFullYear(env.now), GetMonth(env.now) + 1, env)
    ELSE Outcome(g.props, LogInfo(g.log, "not send day"), Undefined, "skipped")

\* sendMonthlyEmail from its test of sendDate on: g is what
\* getCachedHolidayData gave and sendDate what getSendDate returned
SendMonthlyEmailOn(env, g, sendDate) ==
    IF sendDate = NullDate
    THEN Outcome(g.props, LogError(g.log, "no valid send date", "sendMonthlyEmail"),
                 Undefined, "skipped")
    ELSE IF /\ GetFullYear(env.now) = GetFullYear(sendDate)
            /\ GetMonth(env.now) = GetMonth(sendDate)
            /\ GetDate(env.now) = GetDate(sendDate)
    THEN IF ~Truthy(g.props.recipient)
         THEN Outcome(g.props, LogError(g.log, "recipient not set", "sendMonthlyEmail"),
                      g.props.recipient, "recipient")
         ELSE CoreSendEmail(g.props, LogInfo(g.log, "send day"), g.props.recipient,
                            TRUE, GetFullYear(env.now), GetMonth(env.now) + 1, env)
    ELSE Outcome(g.props, LogInfo(g.log, "not send day"), Undefined, "skipped")

SendMonthlyEmailWith(env, g) ==
    SendMonthlyEmailOn(env, g, GetSendDate(GetFullYear(env.now), GetMonth(env.now) + 1,
                                           g.data.holidays, g.data.workdays))

\* sendMonthlyEmail as it would be if it gave up where no holiday record
\* could be had
SendMonthlyEmailFeedFatal(P, env) ==
    IF P.holidayCache.kind # "json" /\ ~env.first.ok
    THEN Outcome(P, LogError(<<>>, "no holiday data", "sendMonthlyEmail"), Undefined, "skipped")
    ELSE SendMonthlyEmailWith(env, GetCachedHolidayData(P, <<>>, env.first, env.now))

\* sendMonthlyEmail() on properties P.  env.first is what the fetch of its
\* own getCachedHolidayData call answers, env.fetch what the one inside
\* processEmailTemplates answers.
SendMonthlyEmail(P, env) ==
    SendMonthlyEmailWith(env, GetCachedHolidayData(P, <<>>, env.first, env.now))

\* sendPreviewToSelf from its call of _coreSendEmail on, r what the call gave
PreviewSent(r) == [r EXCEPT !.log = LogInfo(r.log, "preview sent")]

\* sendPreviewToSelf() on properties P, with selfEmail the address of the
\* active user and response what the prompt gives: the button, whether the
\* text matches /^(\d{4})-(\d{1,2})$/, and the two numbers of it.
SendPreviewToSelf(P, selfEmail, response, env) ==
    IF ~Truthy(selfEmail)
    THEN Outcome(P, LogError(<<>>, "no address of the user", "sendPreviewToSelf"),
                 selfEmail, "recipient")
    ELSE IF response.button # "OK" THEN Outcome(P, <<>>, selfEmail, "skipped")
    ELSE IF ~response.match
    THEN Outcome(P, LogError(<<>>, "format", "sendPreviewToSelf"), selfEmail, "skipped")
    ELSE IF response.month < 1 \/ response.month > 12
    THEN Outcome(P, LogError(<<>>, "month out of range", "sendPreviewToSelf"), selfEmail, "skipped")
    ELSE PreviewSent(CoreSendEmail(P, LogInfo(<<>>, "preparing preview"), selfEmail, FALSE,
                                   response.year, response.month, env))

-----------------------------------------------------------------------------
(* Inputs of the resolvers *)

SendAnchor(y, mon) == DaysFromCivil(y, mon, 25)
DeadlineAnchor(y, mon) == IF mon = 12 THEN DaysFromCivil(y + 1, 1, 5) ELSE DaysFromCivil(y, mon + 1, 5)

\* Runs of consecutive days that begin within MaxGap days of an anchor day
\* and reach up to MaxRun days from it, backward (dir = -1) or forward (1).
Runs(a, dir) == {{a + dir * i : i \in lo..hi} : lo \in 0..MaxGap, hi \in 0..MaxRun}
\* No day, or one day within MaxRun days of the anchor day.
AtMostOne(a, dir) == {{}} \cup {{a + dir * k} : k \in 0..MaxRun}

InitDate ==
    /\ pc = "call"
    /\ op \in {"getSendDate", "calculateDeadline"}
    /\ year \in Years
    /\ month \in Months
    /\ LET a == IF op = "getSendDate" THEN SendAnchor(year, month) ELSE DeadlineAnchor(year, month)
           dir == IF op = "getSendDate" THEN 0 - 1 ELSE 1
       IN  /\ holidays \in Runs(a, dir)
           /\ workdays \in AtMostOne(a, dir)
    /\ markdown = <<>>
    /\ icalText = <<>>
    /\ ret = NullDate
    /\ trace = [date |-> NullDate, steps |-> 0]
    /\ props = NoProps
    /\ log = <<>>
    /\ outbox = <<>>
    /\ clock = DaysFromCivil(year, month, 1)

CallGetSendDate ==
    /\ pc = "call" /\ op = "getSendDate"
    /\ pc' = "done"
    /\ ret' = GetSendDate(year, month, holidays, workdays)
    /\ trace' = GetSendDateScan(year, month, holidays, workdays)
    /\ UNCHANGED <<op, year, month, holidays, workdays, markdown, icalText, props, log, outbox, clock>>

CallCalculateDeadline ==
    /\ pc = "call" /\ op = "calculateDeadline"
    /\ pc' = "done"
    /\ ret' = CalculateDeadline(year, month, holidays, workdays)
    /\ trace' = CalculateDeadlineScan(year, month, holidays, workdays)
    /\ UNCHANGED <<op, year, month, holidays, workdays, markdown, icalText, props, log, outbox, clock>>

NextDate == CallGetSendDate \/ CallCalculateDeadline

SpecDate == InitDate /\ [][NextDate]_vars

-----------------------------------------------------------------------------
(* Inputs of processEmailTemplates *)

MaxPieces == 2   \* a template is made of at most this many pieces

UnknownToken == Chars("{{x}}")

Pieces ==
    {TokRocYear, TokCurrentMonth, TokNextRocYear, TokDeadlineDate, UnknownToken,
     Chars("{{"), Chars("}}"), Chars("a"), Chars("{{roc"), Chars("Year}}")}

RECURSIVE Concats(_)
Concats(n) ==
    IF n = 0 THEN {<<>>}
    ELSE LET shorter == Concats(n - 1)
         IN  shorter \cup {p \o t : p \in Pieces, t \in shorter}

\* Templates with a token inside the parts of another, a token in braces, and
\* text between two tokens
ExtraTemplates ==
    {Chars("{{roc") \o TokCurrentMonth \o Chars("Year}}"),
     Chars("{{") \o TokRocYear \o Chars("}}"),
     Chars("{{next") \o TokRocYear \o Chars("}}"),
     TokDeadlineDate \o Chars("a") \o TokNextRocYear \o TokDeadlineDate}

Templates == {Undefined} \cup Concats(MaxPieces) \cup ExtraTemplates

TemplateKeys == {"subjectNormal", "bodyNormal", "subjectDecember", "bodyDecember"}

\* Settings with template t under key k and a fixed template, different for
\* each key, under the other three.
SettingsWith(k, t) ==
    [NoProps EXCEPT !.subjectNormal = IF k = "subjectNormal" THEN t ELSE Chars("s") \o TokRocYear,
                    !.bodyNormal = IF k = "bodyNormal" THEN t ELSE Chars("b") \o TokDeadlineDate,
                    !.subjectDecember = IF k = "subjectDecember" THEN t ELSE Chars("S") \o TokNextRocYear,
                    !.bodyDecember = IF k = "bodyDecember" THEN t ELSE Chars("B") \o TokCurrentMonth]

\* An event record of the feed: a national holiday, a make-up workday
HolidayEvent(n) ==
    [dtstart |-> TRUE, date |-> <<CivilOfDay(n).y, CivilOfDay(n).m, CivilOfDay(n).d>>,
     summary |-> {}, description |-> {"national"}]
MakeupEvent(n) ==
    [dtstart |-> TRUE, date |-> <<CivilOfDay(n).y, CivilOfDay(n).m, CivilOfDay(n).d>>,
     summary |-> {"makeup"}, description |-> {}]

\* Outcomes of UrlFetchApp.fetch(url).getContentText(): an exception, or a
\* feed with events around day a
FetchOutcomes(a) ==
    {[ok |-> FALSE, events |-> <<>>],
     [ok |-> TRUE, events |-> <<>>],
     [ok |-> TRUE, events |-> <<HolidayEvent(a)>>],
     [ok |-> TRUE, events |-> <<HolidayEvent(a), HolidayEvent(a + 1), MakeupEvent(a + 1)>>]}

\* Values of the property holidayCache before a call
CacheInputs(a) == {NoCache, JsonCache({a, a + 1}, {a - 1})}

InitRender ==
    /\ pc = "call"
    /\ op = "processEmailTemplates"
    /\ year = MaxYear
    /\ month \in Months
    /\ holidays = {}
    /\ workdays = {}
    /\ markdown = <<>>
    /\ icalText = <<>>
    /\ ret = NullDate
    /\ trace = [date |-> NullDate, steps |-> 0]
    /\ outbox = <<>>
    /\ \E k \in TemplateKeys, t \in Templates, c \in CacheInputs(DeadlineAnchor(year, month)) :
          props = [SettingsWith(k, t) EXCEPT !.holidayCache = c]
    /\ log = <<>>
    /\ clock = DaysFromCivil(year, month, 1)

\* processEmailTemplates(settings, year, month) with settings the properties
CallProcessEmailTemplates ==
    /\ pc = "call" /\ op = "processEmailTemplates"
    /\ pc' = "done"
    /\ \E fetch \in FetchOutcomes(DeadlineAnchor(year, month)) :
          LET g == GetCachedHolidayData(props, <<>>, fetch, clock)
          IN  /\ ret' = ProcessEmailTemplates(props, year, month, clock, g.data)
              /\ props' = g.props
              /\ log' = g.log
    /\ UNCHANGED <<op, year, month, holidays, workdays, markdown, icalText, trace, outbox, clock>>

NextRender == CallProcessEmailTemplates

SpecRender == InitRender /\ [][NextRender]_vars

-----------------------------------------------------------------------------
(* The holiday cache in use: getCachedHolidayData and updateHolidayCache  *)
(* called one after the other on the same properties, the days passing    *)

MaxCacheDays == 2   \* the days that pass

CacheFirstDay == DaysFromCivil(MaxYear, 12, 1)
CacheLastDay == CacheFirstDay + MaxCacheDays

\* The properties at the start: no record stored, or one stored long ago
CacheStarts ==
    {NoProps,
     [NoProps EXCEPT !.holidayCache = JsonCache({CacheFirstDay}, {CacheFirstDay - 1}),
                     !.holidayCacheUpdated = CacheFirstDay - 400]}

\* What a call of the two shows: the properties before it, the outcome of
\* the fetch it was given, its time and the number of fetches it made
NoCall == [before |-> NoProps, fetch |-> [ok |-> FALSE, events |-> <<>>], time |-> NullDate,
           fetches |-> 0]

InitCache ==
    /\ pc = "idle"
    /\ op = "none"
    /\ year = MaxYear
    /\ month = 12
    /\ holidays = {}
    /\ workdays = {}
    /\ markdown = <<>>
    /\ icalText = <<>>
    /\ ret = EmptyHolidayData
    /\ trace = NoCall
    /\ props \in CacheStarts
    /\ log = <<>>
    /\ outbox = <<>>
    /\ clock = CacheFirstDay

\* getCachedHolidayData()
CallGetCachedHolidayData ==
    /\ pc \in {"idle", "done"}
    /\ \E fetch \in FetchOutcomes(CacheFirstDay) :
          LET g == GetCachedHolidayData(props, <<>>, fetch, clock)
          IN  /\ ret' = g.data
              /\ props' = g.props
              /\ log' = g.log
              /\ trace' = [before |-> props, fetch |-> fetch, time |-> clock,
                           fetches |-> g.fetches]
    /\ pc' = "done"
    /\ op' = "getCachedHolidayData"
    /\ UNCHANGED <<year, month, holidays, workdays, markdown, icalText, outbox, clock>>

\* updateHolidayCache()
CallUpdateHolidayCache ==
    /\ pc \in {"idle", "done"}
    /\ \E fetch \in FetchOutcomes(CacheFirstDay) :
          LET u == UpdateHolidayCache(props, <<>>, fetch, clock)
          IN  /\ props' = u.props
              /\ log' = u.log
              /\ trace' = [before |-> props, fetch |-> fetch, time |-> clock,
                           fetches |-> u.fetches]
    /\ pc' = "done"
    /\ op' = "updateHolidayCache"
    /\ ret' = EmptyHolidayData
    /\ UNCHANGED <<year, month, holidays, workdays, markdown, icalText, outbox, clock>>

\* A day passes
TickCache ==
    /\ clock < CacheLastDay
    /\ clock' = clock + 1
    /\ UNCHANGED <<pc, op, year, month, holidays, workdays, markdown, icalText, ret, trace, props, log, outbox>>

NextCache == CallGetCachedHolidayData \/ CallUpdateHolidayCache \/ TickCache

SpecCache == InitCache /\ [][NextCache]_vars

-----------------------------------------------------------------------------
(* Inputs of parseHolidayData: feeds written out as text *)

MaxEvents == 2   \* a feed has at most this many events

\* The days the events of a feed are on
ParseDays == {DaysFromCivil(MaxYear, 12, 25), DaysFromCivil(MaxYear + 1, 1, 3)}

CrLf == <<"\r", "\n">>

\* yyyymmdd of a day
Pad2(n) == IF n < 10 THEN <<"0">> \o NatToString(n) ELSE NatToString(n)
DateText(n) == NatToString(CivilOfDay(n).y) \o Pad2(CivilOfDay(n).m) \o Pad2(CivilOfDay(n).d)

\* What a summary or a description of a feed says, by name
FieldTexts ==
    [makeup |-> WordText.makeup \o Chars(" (Sat)"),
     shift |-> Chars(" ") \o WordText.shift,
     libai |-> WordText.libai,
     makeupshift |-> WordText.shift \o Chars("/") \o WordText.makeup,
     national |-> WordText.national,
     other |-> Chars("New Year")]

\* An event of a feed: how its start is written ("date": DTSTART;VALUE=DATE,
\* "time": DTSTART with a time, "none": no start), the day it is on, and what
\* its summary and its description say ("none": the line is not there)
EventWith(start, day, title, description) ==
    [start |-> start, day |-> day, title |-> title, description |-> description]

DatedFields ==
    {<<"none", "national">>, <<"makeup", "none">>, <<"makeup", "national">>,
     <<"makeup", "other">>, <<"shift", "other">>, <<"libai", "other">>,
     <<"other", "national">>, <<"other", "other">>, <<"national", "other">>,
     <<"makeupshift", "other">>, <<"shift", "none">>}

FeedEvents ==
    {EventWith("date", d, f[1], f[2]) : d \in ParseDays, f \in DatedFields}
    \cup {EventWith(st, DaysFromCivil(MaxYear, 12, 25), t, "national") :
             st \in {"time", "none"}, t \in {"makeup", "other"}}

RECURSIVE FeedsUpTo(_)
FeedsUpTo(n) ==
    IF n = 0 THEN {<<>>}
    ELSE LET shorter == FeedsUpTo(n - 1)
         IN  shorter \cup {<<e>> \o f : e \in FeedEvents, f \in shorter}

\* The text of an event and of a feed
EventText(e) ==
    KeyBeginEvent \o CrLf
      \o (CASE e.start = "date" -> KeyDtstartDate \o DateText(e.day) \o CrLf
            [] e.start = "time" -> Chars("DTSTART:") \o DateText(e.day) \o Chars("T000000Z") \o CrLf
            [] e.start = "none" -> <<>>)
      \o (IF e.title = "none" THEN <<>> ELSE KeySummary \o FieldTexts[e.title] \o CrLf)
      \o (IF e.description = "none" THEN <<>>
          ELSE KeyDescription \o FieldTexts[e.description] \o CrLf)
      \o Chars("END:VEVENT") \o CrLf

RECURSIVE EventsText(_, _)
EventsText(feed, i) ==
    IF i > Len(feed) THEN <<>> ELSE EventText(feed[i]) \o EventsText(feed, i + 1)

IcalText(feed) ==
    Chars("BEGIN:VCALENDAR") \o CrLf \o EventsText(feed, 1) \o Chars("END:VCALENDAR") \o CrLf

InitParse ==
    /\ pc = "call"
    /\ op = "parseHolidayData"
    /\ year = MaxYear
    /\ month = 12
    /\ holidays = {}
    /\ workdays = {}
    /\ markdown = <<>>
    /\ \E feed \in FeedsUpTo(MaxEvents) :
          /\ icalText = IcalText(feed)
          /\ trace = [feed |-> feed]
    /\ ret = EmptyHolidayData
    /\ props = NoProps
    /\ log = <<>>
    /\ outbox = <<>>
    /\ clock = DaysFromCivil(year, month, 1)

\* parseHolidayData(icalData)
CallParseHolidayData ==
    /\ pc = "call" /\ op = "parseHolidayData"
    /\ pc' = "done"
    /\ ret' = ParseHolidayText(icalText)
    /\ UNCHANGED <<op, year, month, holidays, workdays, markdown, icalText, trace, props, log, outbox, clock>>

NextParse == CallParseHolidayData

SpecParse == InitParse /\ [][NextParse]_vars

-----------------------------------------------------------------------------
(* Inputs of markdownToHtml *)

MaxMdPieces == 3   \* a text is made of at most this many pieces

MdPieces ==
    {Chars("&"), Chars("<"), Chars(">"), Chars("a"), Chars("\n"), Stars, RedMarker,
     YellowMarker, Chars("[b]"), Chars("(u)"), Chars("- "), Chars("&lt;")}

RECURSIVE MdConcats(_)
MdConcats(n) ==
    IF n = 0 THEN {<<>>}
    ELSE LET shorter == MdConcats(n - 1)
         IN  shorter \cup {p \o t : p \in MdPieces, t \in shorter}

\* The texts of the unit tests, and texts with markup and entities written
\* out in them
ExtraTexts ==
    {Chars("Hello\nWorld"),
     Chars("This is **bold** text."),
     Chars("Visit [Google](https://www.google.com)"),
     RedMarker \o Chars("a\nb") \o RedMarker,
     YellowMarker \o Chars("a b") \o YellowMarker,
     Stars \o Chars("a\nb") \o Stars,
     Chars("a\n\n- b\n\n\nc\r\n- d\r\n\r\ne"),
     Chars("a\n \n - b \n- c\n\n- d\n e"),
     Chars("- First item\n- Second item"),
     Chars("Here is a list:\n- One\n- Two\nAnd a [link](https://example.com)."),
     Chars("- a\nb\n- c\n"),
     Chars("[a] and [b](u)"),
     Chars("Check out [Google](https://google.com)"),
     Chars("- Item 1\n- Item 2"),
     Chars("**Title**\n- Item 1\n- Item 2\n\nVisit [Link](http://a.com)"),
     Chars("<script>alert('x & y')</script>"),
     Chars("<ul><li>a</li></ul><br>\n&amp;"),
     RedMarker \o Chars("a<b>&") \o RedMarker \o Chars("\r\n")
        \o YellowMarker \o Chars("<strong>") \o YellowMarker,
     Chars("[<a>](u>v&w)\nl <li>\n") \o <<"U2022">> \o Chars(" **<**")}

MarkdownTexts == {Undefined} \cup MdConcats(MaxMdPieces) \cup ExtraTexts

InitMarkdown ==
    /\ pc = "call"
    /\ op = "markdownToHtml"
    /\ year = MaxYear
    /\ month = 1
    /\ holidays = {}
    /\ workdays = {}
    /\ markdown \in MarkdownTexts
    /\ icalText = <<>>
    /\ ret = NullDate
    /\ trace = [date |-> NullDate, steps |-> 0]
    /\ props = NoProps
    /\ log = <<>>
    /\ outbox = <<>>
    /\ clock = DaysFromCivil(year, month, 1)

\* markdownToHtml(text)
CallMarkdownToHtml ==
    /\ pc = "call" /\ op = "markdownToHtml"
    /\ pc' = "done"
    /\ ret' = MarkdownToHtml(markdown)
    /\ UNCHANGED <<op, year, month, holidays, workdays, markdown, icalText, trace, props, log, outbox, clock>>

NextMarkdown == CallMarkdownToHtml

SpecMarkdown == InitMarkdown /\ [][NextMarkdown]_vars

-----------------------------------------------------------------------------
(* The script in use: the properties as configured, the triggers and menu *)
(* items run one at a time, the days passing                              *)

\* The days of the model: the 24th and 25th of December of MaxYear
SystemFirstDay == DaysFromCivil(MaxYear, 12, 24)
SystemLastDay == DaysFromCivil(MaxYear, 12, 25)

SubjectText == Chars("S") \o TokRocYear
BodyText == Chars("**B** ") \o TokDeadlineDate

\* The settings: each of recipient, subject and body of the year-end pair
\* absent, empty or set; the other pair set, or set but for an empty subject
Configured ==
    {[NoProps EXCEPT !.recipient = r, !.senderName = Chars("N"),
                     !.subjectDecember = sd, !.bodyDecember = bd,
                     !.subjectNormal = n[1], !.bodyNormal = n[2]] :
        r \in {Undefined, <<>>, Chars("r@x")},
        sd \in {Undefined, <<>>, SubjectText},
        bd \in {Undefined, <<>>, BodyText},
        n \in {<<SubjectText, BodyText>>, <<<<>>, BodyText>>}}

\* What the feed answers: an exception, or the 25th and the 5th of January
\* as national holidays
SystemFetches ==
    {[ok |-> FALSE, events |-> <<>>],
     [ok |-> TRUE, events |-> <<HolidayEvent(SystemLastDay),
                                HolidayEvent(DaysFromCivil(MaxYear + 1, 1, 5))>>]}

\* The settings all set, with a text under holidayCache that is not JSON
Unparseable ==
    {[c EXCEPT !.holidayCache = GarbageCache] :
        c \in {x \in Configured : /\ Truthy(x.recipient)
                                  /\ Truthy(x.subjectDecember)
                                  /\ Truthy(x.bodyDecember)}}

Signatures == {<<>>, Chars("--N")}

\* What the prompt of sendPreviewToSelf gives
Responses ==
    {[button |-> "CANCEL", match |-> FALSE, year |-> 0, month |-> 0],
     [button |-> "OK", match |-> FALSE, year |-> 0, month |-> 0]}
    \cup {[button |-> "OK", match |-> TRUE, year |-> y, month |-> m] :
             y \in {MaxYear}, m \in {0, 11, 12, 13}}
    \cup {[button |-> "OK", match |-> TRUE, year |-> 0, month |-> 11]}

\* What an execution shows of a send operation before it has run one
NoTrace ==
    [recipient |-> Undefined, stage |-> "skipped", rendered |-> NoRendering,
     stored |-> FALSE, firstOk |-> FALSE, fetchOk |-> FALSE]

Init ==
    /\ pc = "idle"
    /\ op = "none"
    /\ year = 0
    /\ month = 0
    /\ holidays = {}
    /\ workdays = {}
    /\ markdown = <<>>
    /\ icalText = <<>>
    /\ ret = NullDate
    /\ trace = NoTrace
    /\ props \in Configured \cup Unparseable
    /\ log = <<>>
    /\ outbox = <<>>
    /\ clock = SystemFirstDay

\* A send operation has returned r, env what the services answered: of the
\* execution are kept the recipient, how far it went and the rendering, and
\* whether a holiday record was stored before it and which fetches answered
Returned(name, y, mon, env, r) ==
    /\ pc' = "done"
    /\ op' = name
    /\ year' = y
    /\ month' = mon
    /\ trace' = [recipient |-> r.recipient, stage |-> r.stage, rendered |-> r.rendered,
                 stored |-> props.holidayCache.kind = "json",
                 firstOk |-> env.first.ok, fetchOk |-> env.fetch.ok]
    /\ props' = r.props
    /\ log' = r.log
    /\ outbox' = r.outbox
    /\ UNCHANGED <<holidays, workdays, markdown, icalText, ret, clock>>

\* The time-driven trigger, or the menu item, runs sendMonthlyEmail
RunSendMonthlyEmail ==
    /\ pc = "idle"
    /\ \E first \in SystemFetches, fetch \in SystemFetches, sig \in Signatures, ok \in BOOLEAN :
          LET env == [first |-> first, fetch |-> fetch, now |-> clock,
                      signature |-> sig, mailOk |-> ok]
          IN  \E r \in {SendMonthlyEmail(props, env)} :
                 Returned("sendMonthlyEmail", GetFullYear(clock), GetMonth(clock) + 1, env, r)

\* The menu item runs sendPreviewToSelf
RunSendPreviewToSelf ==
    /\ pc = "idle"
    /\ \E selfEmail \in {<<>>, Chars("me@x")}, response \in Responses,
          fetch \in SystemFetches, sig \in Signatures, ok \in BOOLEAN :
          LET env == [first |-> fetch, fetch |-> fetch, now |-> clock,
                      signature |-> sig, mailOk |-> ok]
          IN  \E r \in {SendPreviewToSelf(props, selfEmail, response, env)} :
                 Returned("sendPreviewToSelf", response.year, response.month, env, r)

\* The daily trigger runs updateHolidayCache
RunUpdateHolidayCache ==
    /\ pc = "idle"
    /\ \E fetch \in SystemFetches :
          \E u \in {UpdateHolidayCache(props, <<>>, fetch, clock)} :
              /\ props' = u.props
              /\ log' = u.log
              /\ trace' = [NoTrace EXCEPT !.stored = props.holidayCache.kind = "json",
                                          !.firstOk = fetch.ok, !.fetchOk = fetch.ok]
    /\ pc' = "done"
    /\ op' = "updateHolidayCache"
    /\ outbox' = <<>>
    /\ UNCHANGED <<year, month, holidays, workdays, markdown, icalText, ret, clock>>

\* A day passes
Tick ==
    /\ pc = "idle"
    /\ clock < SystemLastDay
    /\ clock' = clock + 1
    /\ UNCHANGED <<pc, op, year, month, holidays, workdays, markdown, icalText, ret, trace, props, log, outbox>>

\* The execution ends: the properties stay, the execution log and what the
\* execution did go with it
EndExecution ==
    /\ pc = "done"
    /\ pc' = "idle"
    /\ op' = "none"
    /\ year' = 0
    /\ month' = 0
    /\ trace' = NoTrace
    /\ log' = <<>>
    /\ outbox' = <<>>
    /\ UNCHANGED <<holidays, workdays, markdown, icalText, ret, props, clock>>

Next ==
    \/ RunSendMonthlyEmail
    \/ RunSendPreviewToSelf
    \/ RunUpdateHolidayCache
    \/ EndExecution
    \/ Tick

Spec == Init /\ [][Next]_vars

-----------------------------------------------------------------------------
(* A month of the script in use: December of MaxYear, the daily trigger   *)
(* running sendMonthlyEmail once a day, updateHolidayCache run in between *)

MonthFirstDay == DaysFromCivil(MaxYear, 12, 1)
MonthLastDay == DaysFromCivil(MaxYear, 12, 31)

\* The days on which the feed is revised and updateHolidayCache is run apart
\* from sendMonthlyEmail: the 23rd to the 25th
RevisionDays == DaysFromCivil(MaxYear, 12, 23)..DaysFromCivil(MaxYear, 12, 25)

\* What the feed answers in the month: an exception, no event, the 25th as
\* a national holiday, or every day from the 1st to the 25th as one
MonthFetches ==
    {[ok |-> FALSE, events |-> <<>>],
     [ok |-> TRUE, events |-> <<>>],
     [ok |-> TRUE, events |-> <<HolidayEvent(DaysFromCivil(MaxYear, 12, 25))>>],
     [ok |-> TRUE, events |-> [i \in 1..25 |-> HolidayEvent(MonthFirstDay + i - 1)]]}

\* The properties at the start of the month: the templates set, the
\* recipient set or not, no holiday record stored or one stored the month
\* before, with the 25th as a holiday or with every day from the 1st to the
\* 25th as one
MonthStarts ==
    {[NoProps EXCEPT !.recipient = r, !.senderName = Chars("N"),
                     !.subjectDecember = SubjectText, !.bodyDecember = BodyText,
                     !.subjectNormal = SubjectText, !.bodyNormal = BodyText,
                     !.holidayCache = c[1], !.holidayCacheUpdated = c[2]] :
        r \in {Undefined, Chars("r@x")},
        c \in {<<NoCache, NullDate>>,
               <<JsonCache({DaysFromCivil(MaxYear, 12, 25)}, {}), MonthFirstDay - 1>>,
               <<JsonCache(MonthFirstDay..DaysFromCivil(MaxYear, 12, 25), {}),
                 MonthFirstDay - 1>>}}

\* The holiday data a stored record holds, empty sets where none is stored
HolidayDataOf(P) ==
    IF P.holidayCache.kind = "json"
    THEN [holidays |-> P.holidayCache.holidays, workdays |-> P.holidayCache.workdays]
    ELSE EmptyHolidayData

\* What is kept of the month: the properties before the execution that ran
\* last, what the feed answers at present, the day sendMonthlyEmail ran
\* last, the days a mail was sent on, and whether so far no call of
\* MailApp.sendEmail was made to fail and the holiday data stored stayed the
\* same
MonthTrace(before, feed, ran, sent, steady) ==
    [before |-> before, feed |-> feed, ran |-> ran, sent |-> sent, steady |-> steady]

InitMonth ==
    /\ pc = "idle"
    /\ op = "none"
    /\ year = MaxYear
    /\ month = 12
    /\ holidays = {}
    /\ workdays = {}
    /\ markdown = <<>>
    /\ icalText = <<>>
    /\ ret = NullDate
    /\ props \in MonthStarts
    /\ \E feed \in MonthFetches : trace = MonthTrace(NoProps, feed, NullDate, <<>>, TRUE)
    /\ log = <<>>
    /\ outbox = <<>>
    /\ clock = MonthFirstDay

\* The daily trigger runs sendMonthlyEmail, once a day
DailySendMonthlyEmail ==
    /\ pc = "idle"
    /\ trace.ran < clock
    /\ \E ok \in BOOLEAN :
          LET env == [first |-> trace.feed, fetch |-> trace.feed, now |-> clock,
                      signature |-> <<>>, mailOk |-> ok]
          IN  \E r \in {SendMonthlyEmail(props, env)} :
                 /\ props' = r.props
                 /\ log' = r.log
                 /\ outbox' = r.outbox
                 /\ trace' = MonthTrace(props, trace.feed, clock,
                                        IF r.outbox = <<>> THEN trace.sent
                                        ELSE Append(trace.sent, clock),
                                        /\ trace.steady
                                        /\ ok
                                        /\ HolidayDataOf(r.props) = HolidayDataOf(props))
    /\ pc' = "done"
    /\ op' = "sendMonthlyEmail"
    /\ UNCHANGED <<year, month, holidays, workdays, markdown, icalText, ret, clock>>

\* updateHolidayCache runs, by its trigger or by hand
RefreshHolidayCache ==
    /\ pc = "idle"
    /\ clock \in RevisionDays
    /\ \E u \in {UpdateHolidayCache(props, <<>>, trace.feed, clock)} :
          /\ props' = u.props
          /\ log' = u.log
          /\ trace' = MonthTrace(props, trace.feed, trace.ran, trace.sent,
                                 trace.steady /\ HolidayDataOf(u.props) = HolidayDataOf(props))
    /\ pc' = "done"
    /\ op' = "updateHolidayCache"
    /\ outbox' = <<>>
    /\ UNCHANGED <<year, month, holidays, workdays, markdown, icalText, ret, clock>>

\* The feed is revised, or comes up, or goes down
FeedRevised ==
    /\ pc = "idle"
    /\ clock \in RevisionDays
    /\ \E feed \in MonthFetches \ {trace.feed} : trace' = [trace EXCEPT !.feed = feed]
    /\ UNCHANGED <<pc, op, year, month, holidays, workdays, markdown, icalText, ret, props, log, outbox, clock>>

\* The execution ends: its log and what it did go with it, the properties
\* and what is kept of the month stay
EndOfRun ==
    /\ pc = "done"
    /\ pc' = "idle"
    /\ op' = "none"
    /\ log' = <<>>
    /\ outbox' = <<>>
    /\ trace' = [trace EXCEPT !.before = NoProps]
    /\ UNCHANGED <<year, month, holidays, workdays, markdown, icalText, ret, props, clock>>

\* A day of the month passes, sendMonthlyEmail having run
NextDay ==
    /\ pc = "idle"
    /\ trace.ran = clock
    /\ clock < MonthLastDay
    /\ clock' = clock + 1
    /\ UNCHANGED <<pc, op, year, month, holidays, workdays, markdown, icalText, ret, trace, props, log, outbox>>

NextMonth ==
    \/ DailySendMonthlyEmail
    \/ RefreshHolidayCache
    \/ FeedRevised
    \/ EndOfRun
    \/ NextDay

SpecMonth == InitMonth /\ [][NextMonth]_vars

-----------------------------------------------------------------------------
(* Executions that overlap: each runs getCachedHolidayData or             *)
(* updateHolidayCache on the shared properties, a step of an execution    *)
(* being what it does up to and with one call of a service                *)

MaxExecutions == 2   \* the executions under way at a time

Executions == 1..MaxExecutions

OverlapFirstTime == DaysFromCivil(MaxYear, 12, 1)

\* What the feed answers to execution e: an exception, or a holiday and a
\* make-up workday that no other execution is given
FetchesFor(e) ==
    {[ok |-> FALSE, events |-> <<>>],
     [ok |-> TRUE, events |-> <<HolidayEvent(OverlapFirstTime + 2 * e),
                                MakeupEvent(OverlapFirstTime + 2 * e + 1)>>]}

\* The record stored before the executions, if one is
OldRecord == JsonCache({OverlapFirstTime - 1}, {OverlapFirstTime - 2})
OverlapStarts ==
    {NoProps,
     [NoProps EXCEPT !.holidayCache = OldRecord, !.holidayCacheUpdated = OverlapFirstTime - 1]}

\* An execution: the function it runs, the line it is at ("start" before,
\* "done" after), the value of `parsed`, what it returned and logged, and of
\* what it did: the record and the timestamp it stored, the number of its
\* fetches, and the executions that were under way while it was
NoWrite == [kind |-> "none", holidays |-> {}, workdays |-> {}]
Execution(name) ==
    [op |-> name, at |-> "start", parsed |-> EmptyHolidayData, ret |-> EmptyHolidayData,
     log |-> <<>>, wrote |-> NoWrite, stamp |-> NullDate, fetches |-> 0, met |-> {}]

UnderWay(x) == x.at \notin {"start", "done"}

InitOverlap ==
    /\ pc = "steps"
    /\ op = "none"
    /\ year = MaxYear
    /\ month = 12
    /\ holidays = {}
    /\ workdays = {}
    /\ markdown = <<>>
    /\ icalText = <<>>
    /\ ret = NullDate
    /\ trace \in [Executions -> {Execution("getCachedHolidayData"), Execution("updateHolidayCache")}]
    /\ props \in OverlapStarts
    /\ log = <<>>
    /\ outbox = <<>>
    /\ clock = OverlapFirstTime

\* Where updateHolidayCache goes on its return: to line 104 of
\* getCachedHolidayData, or to the end of the execution
AfterUpdate(x) == IF x.op = "getCachedHolidayData" THEN "l104" ELSE "done"

\* The execution begins
StepStart(e) ==
    /\ trace[e].at = "start"
    /\ LET others == {f \in Executions \ {e} : UnderWay(trace[f])}
       IN  trace' = [f \in Executions |->
                        IF f = e
                        THEN [trace[e] EXCEPT
                                !.at = IF trace[e].op = "getCachedHolidayData" THEN "l92" ELSE "l81",
                                !.met = others]
                        ELSE IF f \in others THEN [trace[f] EXCEPT !.met = @ \cup {e}]
                        ELSE trace[f]]
    /\ UNCHANGED <<pc, op, year, month, holidays, workdays, markdown, icalText, ret, props, log, outbox, clock>>

\* Lines 92-100 of getCachedHolidayData: the property is read; a record
\* stored is parsed and returned
StepGetProperty(e) ==
    /\ trace[e].at = "l92"
    /\ trace' = [trace EXCEPT ![e] =
                    IF props.holidayCache.kind = "json"
                    THEN [@ EXCEPT !.at = "done",
                                   !.ret = [holidays |-> props.holidayCache.holidays,
                                            workdays |-> props.holidayCache.workdays]]
                    ELSE [@ EXCEPT !.at = "l81"]]
    /\ UNCHANGED <<pc, op, year, month, holidays, workdays, markdown, icalText, ret, props, log, outbox, clock>>

\* Lines 80-82 of updateHolidayCache: the feed is fetched and parsed; an
\* exception is caught and logged (86-88)
StepFetch(e) ==
    /\ trace[e].at = "l81"
    /\ \E fetch \in FetchesFor(e) :
          trace' = [trace EXCEPT ![e] =
                      IF fetch.ok
                      THEN [@ EXCEPT !.at = "l83", !.parsed = ParseHolidayData(fetch.events),
                                     !.fetches = @ + 1]
                      ELSE [@ EXCEPT !.at = AfterUpdate(trace[e]), !.fetches = @ + 1,
                                     !.log = LogError(@, "fetch failed", "updateHolidayCache")]]
    /\ UNCHANGED <<pc, op, year, month, holidays, workdays, markdown, icalText, ret, props, log, outbox, clock>>

\* Line 83: setProperty('holidayCache', JSON.stringify(parsed))
StepSetHolidayCache(e) ==
    /\ trace[e].at = "l83"
    /\ props' = [props EXCEPT !.holidayCache = JsonCache(trace[e].parsed.holidays,
                                                         trace[e].parsed.workdays)]
    /\ trace' = [trace EXCEPT ![e] = [@ EXCEPT !.at = "l84",
                                               !.wrote = JsonCache(trace[e].parsed.holidays,
                                                                   trace[e].parsed.workdays)]]
    /\ UNCHANGED <<pc, op, year, month, holidays, workdays, markdown, icalText, ret, log, outbox, clock>>

\* Lines 84-85: setProperty('holidayCacheUpdated', new Date().toISOString());
\* no two calls of new Date() give the same instant
StepSetUpdated(e) ==
    /\ trace[e].at = "l84"
    /\ props' = [props EXCEPT !.holidayCacheUpdated = clock]
    /\ clock' = clock + 1
    /\ trace' = [trace EXCEPT ![e] = [@ EXCEPT !.at = AfterUpdate(trace[e]), !.stamp = clock,
                                               !.log = LogInfo(@, "holiday cache updated")]]
    /\ UNCHANGED <<pc, op, year, month, holidays, workdays, markdown, icalText, ret, log, outbox>>

\* Lines 104-109 of getCachedHolidayData: the property is read again
StepGetPropertyAgain(e) ==
    /\ trace[e].at = "l104"
    /\ trace' = [trace EXCEPT ![e] =
                    [@ EXCEPT !.at = "done",
                              !.ret = IF props.holidayCache.kind = "json"
                                      THEN [holidays |-> props.holidayCache.holidays,
                                            workdays |-> props.holidayCache.workdays]
                                      ELSE EmptyHolidayData]]
    /\ UNCHANGED <<pc, op, year, month, holidays, workdays, markdown, icalText, ret, props, log, outbox, clock>>

NextOverlap ==
    \E e \in Executions :
        \/ StepStart(e)
        \/ StepGetProperty(e)
        \/ StepFetch(e)
        \/ StepSetHolidayCache(e)
        \/ StepSetUpdated(e)
        \/ StepGetPropertyAgain(e)

SpecOverlap == InitOverlap /\ [][NextOverlap]_vars

-----------------------------------------------------------------------------
(* Properties of the resolvers, stated over day numbers *)

\* Day 19960 (2024-08-25) was a Sunday.
IsWeekend(n) == (n - 19960) % 7 \in {0, 6}

\* A day the resolvers may accept.
Admissible(n, hol, wrk) == n \in wrk \/ (~IsWeekend(n) /\ n \notin hol)

FirstOfMonth == DaysFromCivil(year, month, 1)
The25th == DaysFromCivil(year, month, 25)
\* The 5th of the month after (year, month)
The5thAfter == IF month = 12 THEN DaysFromCivil(year + 1, 1, 5) ELSE DaysFromCivil(year, month + 1, 5)

SendDone == pc = "done" /\ op = "getSendDate"
DeadlineDone == pc = "done" /\ op = "calculateDeadline"

\* The number a sequence of decimal digits denotes
RECURSIVE DigitsValue(_)
DigitsValue(ds) ==
    IF ds = <<>> THEN 0
    ELSE 10 * DigitsValue(SubSeq(ds, 1, Len(ds) - 1))
            + (CHOOSE v \in 0..9 : DigitChars[v + 1] = ds[Len(ds)])

IsNumeral(ds) ==
    /\ ds # <<>>
    /\ \A i \in 1..Len(ds) : \E v \in 0..9 : DigitChars[v + 1] = ds[i]
    /\ Len(ds) > 1 => ds[1] # "0"

\* s read as <numeral> U5E74 <numeral> U6708 <numeral> U65E5
WellFormedDeadline(s) ==
    \E i, j \in 1..Len(s) :
        /\ i < j /\ j < Len(s)
        /\ s[i] = "U5E74" /\ s[j] = "U6708" /\ s[Len(s)] = "U65E5"
        /\ IsNumeral(SubSeq(s, 1, i - 1))
        /\ IsNumeral(SubSeq(s, i + 1, j - 1))
        /\ IsNumeral(SubSeq(s, j + 1, Len(s) - 1))

ParseDeadline(s) ==
    LET i == CHOOSE k \in 1..Len(s) : s[k] = "U5E74"
        j == CHOOSE k \in 1..Len(s) : s[k] = "U6708"
    IN  [roc |-> DigitsValue(SubSeq(s, 1, i - 1)),
         m |-> DigitsValue(SubSeq(s, i + 1, j - 1)),
         d |-> DigitsValue(SubSeq(s, j + 1, Len(s) - 1))]

\* C1: getSendDate returns the latest admissible day among the 1st..25th of
\* the month, reached in one backward step per day from the 25th; with no
\* holidays and no workdays that is the nearest weekday on or before the 25th.
C1_SendDateIsLatestAdmissible ==
    SendDone =>
        LET adm == {n \in FirstOfMonth..The25th : Admissible(n, holidays, workdays)}
        IN  /\ adm # {} =>
                /\ ret \in adm
                /\ \A n \in adm : n <= ret
                /\ trace.steps = The25th - ret
            /\ (holidays = {} /\ workdays = {}) =>
                /\ ret \in FirstOfMonth..The25th
                /\ ~IsWeekend(ret)
                /\ \A n \in (ret + 1)..The25th : IsWeekend(n)

C1_Witness ==
    /\ SendDone
    /\ holidays # {} /\ workdays # {}
    /\ ret # NullDate /\ ret < The25th - 3

\* C2: calculateDeadline resolves to the earliest admissible day on or after
\* the 5th of the following month (January of year + 1 for month 12); with
\* no holidays and no workdays that is the nearest weekday on or after it.
C2_DeadlineIsEarliestAdmissible ==
    DeadlineDone =>
        LET e == CHOOSE n \in The5thAfter..(The5thAfter + ScanLimit) :
                    /\ Admissible(n, holidays, workdays)
                    /\ \A k \in The5thAfter..(n - 1) : ~Admissible(k, holidays, workdays)
            c == CivilOfDay(e)
        IN  /\ WellFormedDeadline(ret)
            /\ ParseDeadline(ret) = [roc |-> c.y - 1911, m |-> c.m, d |-> c.d]
            /\ (holidays = {} /\ workdays = {}) =>
                  /\ ~IsWeekend(e)
                  /\ \A k \in The5thAfter..(e - 1) : IsWeekend(k)
                  /\ e - The5thAfter <= 2

C2_Witness ==
    /\ DeadlineDone
    /\ month = 12
    /\ holidays # {} /\ workdays # {}
    /\ trace.date > The5thAfter + 3

\* C3: neither resolver passes over a day of the workday set: the scan of
\* getSendDate leaves no workday between its result and the 25th (none in
\* the 1st..25th when it returns null), and the scan of calculateDeadline
\* leaves none between the 5th and its result.
C3_WorkdayNeverSkipped ==
    /\ SendDone =>
          \A n \in workdays :
              IF ret = NullDate THEN n \notin FirstOfMonth..The25th
              ELSE n \notin (ret + 1)..The25th
    /\ DeadlineDone =>
          \A n \in workdays : n \notin The5thAfter..(trace.date - 1)

\* a workday that is a holiday and a weekend day is reached and accepted
C3_Witness ==
    /\ pc = "done"
    /\ trace.date # NullDate
    /\ trace.date \in workdays /\ trace.date \in holidays /\ IsWeekend(trace.date)
    /\ trace.steps > 0

\* C4: getSendDate returns null exactly when no day of the 1st..25th is
\* admissible, and a date it returns lies in the requested month and year.
C4_NullIffNoAdmissibleDay ==
    SendDone =>
        /\ ret = NullDate <=> \A n \in FirstOfMonth..The25th : ~Admissible(n, holidays, workdays)
        /\ ret # NullDate =>
              /\ CivilOfDay(ret).y = year
              /\ CivilOfDay(ret).m = month
              /\ CivilOfDay(ret).d <= 25

C4_Witness == SendDone /\ ret = NullDate

\* C5: getSendDate ends within 25 backward steps and gives up only by
\* stepping into the previous month (the 25th step); calculateDeadline ends
\* by accepting a day, which it always returns, month boundary or not.
C5_ResolversTerminate ==
    /\ SendDone =>
          /\ trace.steps <= 25
          /\ ret = NullDate <=> trace.steps = 25
          /\ ret = trace.date
    /\ DeadlineDone =>
          /\ trace.date >= The5thAfter
          /\ trace.steps = trace.date - The5thAfter
          /\ trace.steps < ScanLimit
          /\ Admissible(trace.date, holidays, workdays)
          /\ WellFormedDeadline(ret)

\* the deadline lies beyond the following month
C5_Witness ==
    /\ DeadlineDone
    /\ CivilOfDay(trace.date).m # CivilOfDay(The5thAfter).m

\* C6: the string calculateDeadline returns is <Y> U5E74 <M> U6708 <D> U65E5
\* with Y the resolved date's year minus 1911 and M and D its month and day,
\* none zero-padded; for month 12 the year part is (year + 1) - 1911.
C6_DeadlineFormat ==
    DeadlineDone =>
        LET c == CivilOfDay(trace.date)
        IN  /\ WellFormedDeadline(ret)
            /\ ParseDeadline(ret).roc = c.y - 1911
            /\ ParseDeadline(ret).m = c.m
            /\ ParseDeadline(ret).d = c.d
            /\ ret = NumberToString(c.y - 1911) \o <<"U5E74">> \o NumberToString(c.m)
                        \o <<"U6708">> \o NumberToString(c.d) \o <<"U65E5">>
            /\ month = 12 => ParseDeadline(ret).roc = (year + 1) - 1911

C6_Witness ==
    /\ DeadlineDone
    /\ month = 12
    /\ ParseDeadline(ret).d >= 10
    /\ ParseDeadline(ret).roc = 114

-----------------------------------------------------------------------------
(* Properties of processEmailTemplates *)

RenderDone == pc = "done" /\ op = "processEmailTemplates"

\* The decimal numerals of the months
MonthNumerals ==
    <<(<<"1">>), (<<"2">>), (<<"3">>), (<<"4">>), (<<"5">>), (<<"6">>), (<<"7">>), (<<"8">>),
      (<<"9">>), (<<"1", "0">>), (<<"1", "1">>), (<<"1", "2">>)>>

\* The holiday data of the call: the stored record after it, empty sets if
\* none is stored
CachedData ==
    IF props.holidayCache.kind = "json"
    THEN [holidays |-> props.holidayCache.holidays, workdays |-> props.holidayCache.workdays]
    ELSE EmptyHolidayData

\* Token/value pairs: rocYear, currentMonth, deadlineDate and, if withNext,
\* nextRocYear
Substitutions(withNext) ==
    LET base == <<(<<TokRocYear, NumberToString(year - 1911)>>),
                  (<<TokCurrentMonth, MonthNumerals[month]>>),
                  (<<TokDeadlineDate,
                     CalculateDeadline(year, month, CachedData.holidays, CachedData.workdays)>>)>>
    IN  IF withNext
        THEN Append(base, <<TokNextRocYear, NumberToString((year - 1911) + 1)>>)
        ELSE base

\* One pass over s from index i: a token of `pairs` is replaced by its value
\* where it occurs, every other character is copied.
RECURSIVE SimSubst(_, _, _)
SimSubst(s, pairs, i) ==
    IF i > Len(s) THEN <<>>
    ELSE LET hits == {k \in 1..Len(pairs) : MatchAt(s, pairs[k][1], i)}
         IN  IF hits = {} THEN <<s[i]>> \o SimSubst(s, pairs, i + 1)
             ELSE LET k == CHOOSE h \in hits : TRUE
                  IN  pairs[k][2] \o SimSubst(s, pairs, i + Len(pairs[k][1]))

\* The tokens of `pairs` substituted one after the other in the order given
RECURSIVE SubstInOrder(_, _, _, _)
SubstInOrder(s, pairs, order, n) ==
    IF n > Len(pairs) THEN s
    ELSE SubstInOrder(SimSubst(s, <<pairs[order[n]]>>, 1), pairs, order, n + 1)

Contains(s, pat) == \E i \in 1..Len(s) : MatchAt(s, pat, i)

SelectedSubject == OrEmpty(IF month = 12 THEN props.subjectDecember ELSE props.subjectNormal)
SelectedBody == OrEmpty(IF month = 12 THEN props.bodyDecember ELSE props.bodyNormal)

\* C7: processEmailTemplates renders the year-end pair exactly when month is
\* 12 and the ordinary pair otherwise, with rocYear = year - 1911, the month
\* unpadded, the deadline string of calculateDeadline on the cached sets
\* and, in the year-end pair, nextRocYear = (year - 1911) + 1.
C7_RenderSelectsAndSubstitutes ==
    RenderDone =>
        /\ ret.subject = SimSubst(SelectedSubject, Substitutions(month = 12), 1)
        /\ ret.body = SimSubst(SelectedBody, Substitutions(month = 12), 1)

C7_Witness ==
    /\ RenderDone
    /\ month = 12
    /\ Contains(props.subjectDecember, TokNextRocYear)
    /\ Contains(props.subjectDecember, TokDeadlineDate)
    /\ props.holidayCache.kind = "json" /\ props.holidayCache.holidays # {}
    /\ ret.subject # <<>>

\* No token of `pairs` is left in s, and s is what the one pass and every
\* order of substituting the tokens one by one make of template t.
TotalAndOrderFree(t, s, pairs) ==
    /\ \A k \in 1..Len(pairs) : ~Contains(s, pairs[k][1])
    /\ s = SimSubst(t, pairs, 1)
    /\ \A order \in Permutations(1..Len(pairs)) : SubstInOrder(t, pairs, order, 1) = s
    /\ Contains(t, UnknownToken) => Contains(s, UnknownToken)

\* C8 as stated: all four tokens are replaced in subject and body, whatever
\* the month.
C8_AllFourTokensReplaced ==
    RenderDone =>
        /\ TotalAndOrderFree(SelectedSubject, ret.subject, Substitutions(TRUE))
        /\ TotalAndOrderFree(SelectedBody, ret.body, Substitutions(TRUE))

\* C8 (amended): in subject and body every occurrence of {{rocYear}},
\* {{currentMonth}}, {{deadlineDate}} and, when month is 12, {{nextRocYear}}
\* is replaced; everything else, {{nextRocYear}} in months 1..11 included,
\* passes through unchanged; the result is the same for every order of
\* substituting the tokens.
C8_SubstitutionTotalOrderFree ==
    RenderDone =>
        /\ TotalAndOrderFree(SelectedSubject, ret.subject, Substitutions(month = 12))
        /\ TotalAndOrderFree(SelectedBody, ret.body, Substitutions(month = 12))
        /\ month # 12 =>
              /\ Contains(SelectedSubject, TokNextRocYear) => Contains(ret.subject, TokNextRocYear)
              /\ Contains(SelectedBody, TokNextRocYear) => Contains(ret.body, TokNextRocYear)

\* a token occurs twice, next to an unknown token
C8_Witness ==
    /\ RenderDone
    /\ \E i, j \in 1..Len(SelectedBody) :
          /\ i < j
          /\ MatchAt(SelectedBody, TokDeadlineDate, i)
          /\ MatchAt(SelectedBody, TokDeadlineDate, j)
    /\ ~Contains(ret.body, TokDeadlineDate)

-----------------------------------------------------------------------------
(* Properties of markdownToHtml *)

MarkdownDone == pc = "done" /\ op = "markdownToHtml"

\* The number of places of s where pat occurs
Count(s, pat) == Cardinality({i \in 1..Len(s) : MatchAt(s, pat, i)})

\* The text whose entities &gt; &lt; &amp; are read back, &amp; last
Unescape(s) ==
    ReplaceAll(ReplaceAll(ReplaceAll(s, GtEntity, <<">">>), LtEntity, <<"<">>),
               AmpEntity, <<"&">>)

\* The markup the converter writes: what a `<` of it begins, what a `>` of
\* it ends
TagsBegun ==
    {RedSpan, YellowSpan, SpanEnd, StrongTag, StrongEnd, AnchorHref, AnchorEnd,
     LiTag, LiEnd, UlTag, UlEnd, Chars("<br>")}
TagsEnded ==
    {RedSpan, YellowSpan, SpanEnd, StrongTag, StrongEnd, AnchorTarget, AnchorEnd,
     LiTag, LiEnd, UlTag, UlEnd, Chars("<br>")}

\* C10: markdownToHtml first replaces every `&`, `<` and `>` of its input by
\* `&amp;`, `&lt;` and `&gt;` (the escaped text has no `<` or `>`, every `&`
\* of it begins one of the three entities, and reading the entities back
\* gives the input), the other rules run on the escaped text, and in the
\* output every `<` begins and every `>` ends markup the converter writes,
\* while each `&`, `<`, `>` of the input is there as its entity.
C10_AngleBracketsAreMarkup ==
    MarkdownDone /\ Truthy(markdown) =>
        LET escaped == EscapeHtml(markdown)
        IN  /\ \A i \in 1..Len(escaped) :
                  /\ escaped[i] \notin {"<", ">"}
                  /\ escaped[i] = "&" =>
                        \E e \in {AmpEntity, LtEntity, GtEntity} : MatchAt(escaped, e, i)
            /\ Unescape(escaped) = markdown
            /\ ret = ConvertMarkers(escaped)
            /\ \A i \in 1..Len(ret) :
                  /\ ret[i] = "<" => \E t \in TagsBegun : MatchAt(ret, t, i)
                  /\ ret[i] = ">" => \E t \in TagsEnded : MatchAt(ret, t, i - Len(t) + 1)
            /\ Count(ret, LtEntity) = Count(markdown, <<"<">>)
            /\ Count(ret, GtEntity) = Count(markdown, <<">">>)
            /\ Count(ret, <<"&">>) = Count(markdown, <<"&">>) + Count(markdown, <<"<">>) + Count(markdown, <<">">>)

\* A text with `<`, `>` and `&` inside a highlight marker pair was converted
C10_Witness ==
    /\ MarkdownDone
    /\ Truthy(markdown)
    /\ Count(markdown, <<"<">>) > 0 /\ Count(markdown, <<">">>) > 0 /\ Count(markdown, <<"&">>) > 0
    /\ Count(ret, RedSpan) > 0
    /\ Count(ret, LtEntity) > 0

\* A text with no marker: none of the characters the rules look for, and no
\* line that begins with white space or with a bullet character
PlainText(s) ==
    /\ Truthy(s)
    /\ \A i \in 1..Len(s) :
          /\ s[i] \notin {"&", "<", ">", "*", "[", "-", "U2022", "\r", "U2028", "U2029"}
          /\ (i = 1 \/ s[i - 1] = "\n") => s[i] \notin {"l", " ", "\t", "U00A0", "U3000"}

\* The lines of s from index i on, each followed by '<br>' and a newline; a
\* line ends at a newline or at the end of the text
RECURSIVE LinesWithBreaks(_, _)
LinesWithBreaks(s, i) ==
    IF i > Len(s) THEN <<>>
    ELSE LET eol == SkipUntil(s, {"\n"}, i)
         IN  SubSeq(s, i, eol - 1) \o BrNewline \o LinesWithBreaks(s, eol + 1)

\* C11: markdownToHtml turns a text with no marker into its lines, each one,
\* the last included, followed by '<br>' and a newline, with no other
\* change.
C11_BreakAfterEveryLine ==
    MarkdownDone /\ PlainText(markdown) => ret = LinesWithBreaks(markdown, 1)

\* The indices of s where a line begins; a line ends at a newline or at the
\* end of the text
LineStarts(s) == {i \in 1..Len(s) : i = 1 \/ s[i - 1] = "\n"}

\* The line of s that begins at i is a bullet line: '-', the bullet sign or
\* 'l', then a blank
BulletLineAt(s, i) ==
    /\ s[i] \in {"-", "U2022", "l"}
    /\ i + 1 <= Len(s)
    /\ s[i + 1] \in {" ", "\t"}

\* The bullet lines of s, and those of them that begin a run: the first line
\* of the text, or a line after one that is no bullet line
BulletLines(s) == {i \in LineStarts(s) : BulletLineAt(s, i)}
BulletRuns(s) ==
    {i \in BulletLines(s) :
        i = 1 \/ ~BulletLineAt(s, Max({j \in LineStarts(s) : j < i}))}

\* A text of bullet lines and plain lines: no character of another rule, no
\* empty line, no line that begins with a blank, and a bullet line has its
\* text right after one blank
ListText(s) ==
    /\ Truthy(s)
    /\ \A i \in 1..Len(s) :
          s[i] \notin {"&", "<", ">", "*", "[", "\r", "U2028", "U2029"}
    /\ \A i \in LineStarts(s) :
          /\ s[i] \notin Spaces
          /\ BulletLineAt(s, i) => i + 2 <= Len(s) /\ s[i + 2] \notin Spaces
    /\ BulletLines(s) # {}

\* C12: of a text of bullet lines and plain lines, each maximal run of
\* bullet lines becomes one '<ul>...</ul>' (two runs with a plain line in
\* between give two), each bullet line one '<li>...</li>', no '<br>' follows
\* an item, and where the text ends in a newline a bare newline follows each
\* item.
C12_RunsBecomeLists ==
    MarkdownDone /\ ListText(markdown) =>
        /\ Count(ret, UlTag) = Cardinality(BulletRuns(markdown))
        /\ Count(ret, UlEnd) = Cardinality(BulletRuns(markdown))
        /\ Count(ret, LiTag) = Cardinality(BulletLines(markdown))
        /\ \A i \in 1..Len(ret) :
              MatchAt(ret, LiEnd, i) =>
                  /\ ~MatchAt(ret, BrNewline, i + Len(LiEnd))
                  /\ markdown[Len(markdown)] = "\n" => MatchAt(ret, <<"\n">>, i + Len(LiEnd))

\* The marker pairs with the markup each is to become
MarkerPairs ==
    {[marker |-> RedMarker, open |-> RedSpan, close |-> SpanEnd],
     [marker |-> YellowMarker, open |-> YellowSpan, close |-> SpanEnd],
     [marker |-> Stars, open |-> StrongTag, close |-> StrongEnd]}

\* s is marker TEXT marker, with TEXT not empty and free of `*`, of the
\* characters of the other rules and of bullet lines
Wrapped(s, marker) ==
    /\ Truthy(s)
    /\ Len(s) > 2 * Len(marker)
    /\ MatchAt(s, marker, 1)
    /\ MatchAt(s, marker, Len(s) - Len(marker) + 1)
    /\ \A i \in (Len(marker) + 1)..(Len(s) - Len(marker)) :
          /\ s[i] \notin {"*", "&", "<", ">", "[", "\r", "U2028", "U2029"}
          /\ s[i - 1] = "\n" => s[i] \notin {"l", "-", "U2022"} \cup Spaces

\* The text between the markers of a wrapped s
WrappedText(s, marker) == SubSeq(s, Len(marker) + 1, Len(s) - Len(marker))

\* C13: a text that is a marker pair around TEXT, the red pair, the yellow
\* pair or plain `**`, becomes the markup of that pair around TEXT (its
\* newlines as line breaks): the span for a custom pair, whose marker words
\* are not made bold, and '<strong>' for `**`.
C13_CustomMarkersBeforeBold ==
    \A p \in MarkerPairs :
        MarkdownDone /\ Wrapped(markdown, p.marker) =>
            LET inner == ReplaceAll(WrappedText(markdown, p.marker), <<"\n">>, BrNewline)
                markup == p.open \o inner \o p.close
            IN  ret \in {markup, markup \o BrNewline}

\* The places of s where a label ends and a url begins: `](`
LinkJoints(s) == {i \in 1..Len(s) : MatchAt(s, <<"]", "(">>, i)}

\* A text on one line with one inline link in it and no character of
\* another rule: one `](`, a `[` before it with a label in between, a `)`
\* after it with a url in between
LinkText(s) ==
    /\ Truthy(s)
    /\ \A i \in 1..Len(s) :
          s[i] \notin {"*", "&", "<", ">", "\\"} \cup LineTerminators
    /\ s[1] \notin {"l", "-", "U2022"} \cup Spaces
    /\ Cardinality(LinkJoints(s)) = 1
    /\ \E c \in LinkJoints(s) :
          /\ \E o \in 1..(c - 2) : s[o] = "["
          /\ \E e \in (c + 3)..Len(s) : s[e] = ")"
          /\ s[c + 2] # ")"

\* The link of such a text: where its `[`, its `](` and its `)` are.  The
\* label is the text between the `](` and the nearest `[` before it.
LinkOf(s) ==
    LET c == CHOOSE i \in LinkJoints(s) : TRUE
    IN  [open |-> Max({o \in 1..(c - 1) : s[o] = "["}),
         joint |-> c,
         close |-> SkipUntil(s, {")"}, c + 2)]

\* C14: the one link '[label](url)' of a text becomes
\* '<a href="url" target="_blank">label</a>', label the text between the `[`
\* of the link and its `]`; the text before it, an earlier '[text]' included,
\* and the text after it are left as they are.
C14_LinkLabelIsBracketed ==
    MarkdownDone /\ LinkText(markdown) /\ LinkOf(markdown).open < LinkOf(markdown).joint - 1 =>
        LET k == LinkOf(markdown)
            markup == SubSeq(markdown, 1, k.open - 1)
                        \o AnchorHref \o SubSeq(markdown, k.joint + 2, k.close - 1) \o AnchorTarget
                        \o SubSeq(markdown, k.open + 1, k.joint - 1) \o AnchorEnd
                        \o SubSeq(markdown, k.close + 1, Len(markdown))
        IN  ret \in {markup, markup \o BrNewline}

StringValue(s) == s # Undefined /\ \A i \in 1..Len(s) : s[i] # "undefined"

-----------------------------------------------------------------------------
(* Properties of parseHolidayData *)

ParseDone == pc = "done" /\ op = "parseHolidayData"

\* The events the feed was written from
FeedOf == {trace.feed[i] : i \in 1..Len(trace.feed)}

\* An event with a start date, a title and a description
Complete(e) == e.start = "date" /\ e.title # "none" /\ e.description # "none"
\* What the title and the description of an event mark
MarksMakeup(e) == e.title \in {"makeup", "makeupshift"}
MarksHoliday(e) == e.description = "national" \/ e.title \in {"shift", "makeupshift", "libai"}

\* C21: parseHolidayData returns as workdays the days of the complete events
\* whose title marks a make-up workday, and as holidays the days of the
\* other complete events whose description marks a national holiday or whose
\* title marks an observed-holiday shift; an event goes to one set at most,
\* an event with no start date, no title or no description to neither, and
\* the events next to it are parsed all the same; nothing is logged.
C21_EventsClassified ==
    ParseDone =>
        /\ ret.workdays = {e.day : e \in {x \in FeedOf : Complete(x) /\ MarksMakeup(x)}}
        /\ ret.holidays = {e.day : e \in {x \in FeedOf : /\ Complete(x)
                                                         /\ ~MarksMakeup(x)
                                                         /\ MarksHoliday(x)}}
        /\ \A e \in FeedOf :
              (\A x \in FeedOf : x.day = e.day => x = e) =>
                  /\ ~(e.day \in ret.workdays /\ e.day \in ret.holidays)
                  /\ ~Complete(e) => e.day \notin ret.workdays \cup ret.holidays
        /\ log = <<>>

\* A feed of an event with no description and a make-up workday that its
\* description calls a national holiday: the second is a workday, the first
\* nothing
C21_Witness ==
    /\ ParseDone
    /\ Len(trace.feed) = 2
    /\ trace.feed[1].start = "date" /\ trace.feed[1].description = "none"
    /\ trace.feed[2] = EventWith("date", DaysFromCivil(MaxYear + 1, 1, 3), "makeup", "national")
    /\ trace.feed[1].day # trace.feed[2].day
    /\ ret = [holidays |-> {}, workdays |-> {DaysFromCivil(MaxYear + 1, 1, 3)}]

-----------------------------------------------------------------------------
(* Properties of the holiday cache *)

\* The log has an error entry with one of the tags
ErrorLogged(tags) ==
    \E i \in 1..Len(log) : log[i].level = "error" /\ log[i].context \in tags

GetCachedDone == pc = "done" /\ op = "getCachedHolidayData"
UpdateDone == pc = "done" /\ op = "updateHolidayCache"

\* A holiday record is stored in P; the sets of it
Stored(P) == P.holidayCache.kind = "json"
StoredData(P) == [holidays |-> P.holidayCache.holidays, workdays |-> P.holidayCache.workdays]

\* C17: called with a record stored, getCachedHolidayData returns the sets
\* of that record, makes no fetch, and leaves every property, the record and
\* its timestamp among them, as it was, whatever the age of the record.
C17_StoredRecordReturned ==
    GetCachedDone /\ Stored(trace.before) =>
        /\ ret = StoredData(trace.before)
        /\ trace.fetches = 0
        /\ props = trace.before
        /\ log = <<>>

\* A record stored 400 days or more before the call was returned, though
\* the feed would have answered with other data
C17_Witness ==
    /\ GetCachedDone
    /\ Stored(trace.before)
    /\ trace.time - trace.before.holidayCacheUpdated >= 400
    /\ trace.fetch.ok
    /\ ParseHolidayData(trace.fetch.events) # ret
    /\ ret = StoredData(props)

\* C18: called with no record stored, getCachedHolidayData makes one fetch.
\* If the fetch answers, the parsed record is stored with the time of the
\* call and its sets are returned; if it fails, empty sets are returned, the
\* properties stay as they were, the failure is logged and no other fetch is
\* made.
C18_AbsentRecordOneRefresh ==
    GetCachedDone /\ ~Stored(trace.before) =>
        /\ trace.fetches = 1
        /\ trace.fetch.ok =>
              /\ props = [trace.before EXCEPT
                            !.holidayCache = JsonCache(ParseHolidayData(trace.fetch.events).holidays,
                                                       ParseHolidayData(trace.fetch.events).workdays),
                            !.holidayCacheUpdated = trace.time]
              /\ ret = ParseHolidayData(trace.fetch.events)
        /\ ~trace.fetch.ok =>
              /\ props = trace.before
              /\ ret = EmptyHolidayData
              /\ ErrorLogged({"updateHolidayCache"})

\* With no record stored the fetch failed, and empty sets came back
C18_Witness ==
    /\ GetCachedDone
    /\ ~Stored(trace.before)
    /\ ~trace.fetch.ok
    /\ trace.fetches = 1
    /\ ret = EmptyHolidayData
    /\ ~Stored(props)

\* C19: every call of updateHolidayCache makes one fetch, and after it the
\* record stored is the one the call produced (the parsed feed, empty sets
\* for a feed that could not be had) and the timestamp stored is the time of
\* the call, whatever was stored before.
C19_RefreshAlwaysOverwrites ==
    UpdateDone =>
        /\ trace.fetches = 1
        /\ Stored(props)
        /\ StoredData(props) = IF trace.fetch.ok THEN ParseHolidayData(trace.fetch.events)
                                ELSE EmptyHolidayData
        /\ props.holidayCacheUpdated = trace.time

-----------------------------------------------------------------------------
(* Properties of the send operations *)

SendOpDone == pc = "done" /\ op \in {"sendMonthlyEmail", "sendPreviewToSelf"}

\* The month whose pair of templates the operation renders: the month it
\* passes on, today's month when it passes on a year of 0
PairMonth == IF year # 0 /\ month # 0 THEN month ELSE GetMonth(clock) + 1
SubjectTemplate == IF PairMonth = 12 THEN props.subjectDecember ELSE props.subjectNormal
BodyTemplate == IF PairMonth = 12 THEN props.bodyDecember ELSE props.bodyNormal

\* C9: when the recipient, or the subject or body template of the selected
\* pair, is missing or empty, a send operation makes no call of
\* MailApp.sendEmail; if it got as far as settling the recipient it logged
\* an error under its own tag or that of _coreSendEmail; and if it rendered,
\* the rendering returned, with the empty string for a missing or empty
\* template.
C9_MissingSettingsAbortSend ==
    SendOpDone /\ (~Truthy(trace.recipient) \/ ~Truthy(SubjectTemplate) \/ ~Truthy(BodyTemplate)) =>
        /\ outbox = <<>>
        /\ trace.stage # "skipped" => ErrorLogged({"_coreSendEmail", op})
        /\ trace.stage = "core" =>
              /\ trace.rendered # NoRendering
              /\ ~Truthy(SubjectTemplate) => trace.rendered.subject = <<>>
              /\ ~Truthy(BodyTemplate) => trace.rendered.body = <<>>

\* On the send day, with a recipient and a body template set and the subject
\* template empty, sendMonthlyEmail rendered, sent nothing and logged the
\* error of _coreSendEmail.
C9_Witness ==
    /\ pc = "done" /\ op = "sendMonthlyEmail"
    /\ trace.stage = "core"
    /\ Truthy(trace.recipient)
    /\ props.subjectDecember = <<>>
    /\ Truthy(props.bodyDecember)
    /\ trace.rendered.subject = <<>>
    /\ Truthy(trace.rendered.body)
    /\ outbox = <<>>
    /\ ErrorLogged({"_coreSendEmail"})


\* No holiday record was stored before the send operation and no fetch it
\* made was answered
FeedDown == SendOpDone /\ ~trace.stored /\ ~trace.firstOk /\ ~trace.fetchOk

\* The send date of today's month by the weekends alone
WeekendSendDate == GetSendDate(GetFullYear(clock), GetMonth(clock) + 1, {}, {})

\* The log has the error entry of a failed MailApp.sendEmail
TransportFailed ==
    \E i \in 1..Len(log) :
        log[i].level = "error" /\ log[i].context = "_coreSendEmail" /\ log[i].text = "sendEmail failed"

\* C20: with no holiday record stored and the feed not to be had, a send
\* operation runs to its end on empty sets.  sendMonthlyEmail goes on exactly
\* on the send date the weekends alone give; what is rendered is rendered
\* with the deadline the weekends alone give; and with recipient, subject
\* and body at hand the mail is handed to MailApp.sendEmail, which sends it
\* or fails on its own account.
C20_FeedFailureNotFatal ==
    FeedDown =>
        /\ ~Stored(props)
        /\ op = "sendMonthlyEmail" => (trace.stage = "skipped" <=> clock # WeekendSendDate)
        /\ trace.stage = "core" =>
              /\ trace.rendered = ProcessEmailTemplates(props, year, month, clock, EmptyHolidayData)
              /\ Truthy(trace.recipient) /\ Truthy(trace.rendered.subject)
                    /\ Truthy(trace.rendered.body) =>
                    \/ TransportFailed /\ outbox = <<>>
                    \/ /\ Len(outbox) = 1
                       /\ outbox[1].to = trace.recipient
                       /\ outbox[1].subject = trace.rendered.subject
                       /\ \E sig \in Signatures :
                             outbox[1].htmlBody = HtmlOpen \o MarkdownToHtml(trace.rendered.body)
                                                    \o sig \o HtmlClose

\* On the 25th, a Thursday the feed would have given as a holiday, with no
\* record stored and no fetch answered, sendMonthlyEmail sent the mail, the
\* deadline in it that of the weekends alone
C20_Witness ==
    /\ FeedDown
    /\ op = "sendMonthlyEmail"
    /\ clock = SystemLastDay
    /\ Len(outbox) = 1
    /\ Contains(outbox[1].htmlBody,
                FormatDeadline(DaysFromCivil(MaxYear + 1, 1, 5)))

-----------------------------------------------------------------------------
(* Properties of sendMonthlyEmail over the month *)

DailyRunDone == pc = "done" /\ op = "sendMonthlyEmail" /\ trace.ran = clock

\* The holiday data the run had from getCachedHolidayData: that of the
\* record stored before it, else that of the feed, else empty sets
DataOfRun ==
    IF Stored(trace.before) THEN StoredData(trace.before)
    ELSE IF trace.feed.ok THEN ParseHolidayData(trace.feed.events)
    ELSE EmptyHolidayData

\* The send date of today's month by that data
SendDateOfRun ==
    GetSendDate(GetFullYear(clock), GetMonth(clock) + 1, DataOfRun.holidays, DataOfRun.workdays)

\* The properties as the run's getCachedHolidayData leaves them: as they
\* were, but for a record built where none was stored and the feed answered
AfterLazyBuild ==
    IF Stored(trace.before) \/ ~trace.feed.ok THEN trace.before
    ELSE [trace.before EXCEPT !.holidayCache = JsonCache(DataOfRun.holidays, DataOfRun.workdays),
                              !.holidayCacheUpdated = clock]

\* C22 as stated: sendMonthlyEmail sends only on the send date resolved from
\* the cached holiday data and with a recipient set, and on any other day,
\* or with no send date in the month, sends nothing and leaves every stored
\* property as it was.
C22_NoStoredStateChange ==
    DailyRunDone =>
        /\ outbox # <<>> => clock = SendDateOfRun /\ Truthy(trace.before.recipient)
        /\ clock # SendDateOfRun => outbox = <<>> /\ props = trace.before

\* C22 (amended): sendMonthlyEmail sends only on the send date resolved from
\* the cached holiday data and with a recipient set; on any other day, or
\* with no send date in the month, it sends nothing and leaves the settings
\* as they were, the one change it can make being the holiday record its
\* getCachedHolidayData builds where none was stored.
C22_SendsOnlyOnSendDate ==
    DailyRunDone =>
        /\ outbox # <<>> =>
              /\ clock = SendDateOfRun
              /\ Truthy(trace.before.recipient)
              /\ Len(outbox) = 1 /\ outbox[1].to = trace.before.recipient
        /\ clock # SendDateOfRun => outbox = <<>> /\ props = AfterLazyBuild

\* On the 24th, with the 1st to the 25th all holidays by the feed and no
\* record stored before, the run found no send date and sent nothing, and
\* the record of the feed is stored
C22_Witness ==
    /\ DailyRunDone
    /\ clock = DaysFromCivil(MaxYear, 12, 24)
    /\ SendDateOfRun = NullDate
    /\ Truthy(trace.before.recipient)
    /\ ~Stored(trace.before) /\ Stored(props)
    /\ outbox = <<>>

-----------------------------------------------------------------------------
(* Properties of executions that overlap *)

\* The holiday data of the refreshes there are: that of the record stored
\* before, and what each execution's fetch gives where it answers
RefreshData ==
    {[holidays |-> OldRecord.holidays, workdays |-> OldRecord.workdays]}
    \cup {ParseHolidayData(f.events) : f \in {x \in UNION {FetchesFor(e) : e \in Executions} : x.ok}}

\* The record and the timestamp stored are those of one refresh: the one
\* before the executions, or the one of an execution
StampOfStoredRecord ==
    \/ /\ props.holidayCache = OldRecord
       /\ props.holidayCacheUpdated = OverlapFirstTime - 1
    \/ \E e \in Executions :
          /\ trace[e].wrote = props.holidayCache
          /\ trace[e].stamp = props.holidayCacheUpdated

\* C23: with executions overlapping, the two sets a call of
\* getCachedHolidayData returns are those of one refresh (or both empty, no
\* record being stored), and the timestamp stored is at every moment that of
\* the refresh that wrote the record stored.
C23_NoPartialRecord ==
    /\ \A e \in Executions :
          trace[e].op = "getCachedHolidayData" /\ trace[e].at = "done" =>
              \/ trace[e].ret \in RefreshData
              \/ trace[e].ret = EmptyHolidayData /\ trace[e].wrote = NoWrite
    /\ Stored(props) => StampOfStoredRecord

\* The execution is inside updateHolidayCache, from its fetch to its second
\* setProperty
InRefresh(x) == x.at \in {"l81", "l83", "l84"}

\* Both executions fetched and both stored a record
BothRefreshed(e, f) ==
    /\ trace[e].fetches > 0 /\ trace[e].wrote # NoWrite
    /\ trace[f].fetches > 0 /\ trace[f].wrote # NoWrite

\* C24: with executions overlapping, one of them at most is inside
\* updateHolidayCache at a time, and no two that were under way together
\* have both fetched the feed and both stored a record.
C24_OneRefreshInFlight ==
    /\ Cardinality({e \in Executions : InRefresh(trace[e])}) <= 1
    /\ \A e \in Executions : \A f \in trace[e].met : ~BothRefreshed(e, f)

(***************************************************************************)
(* Properties of the reporting of failures                                 *)
(***************************************************************************)

\* The names logError is given by the five operations
CoreTags ==
    {"sendMonthlyEmail", "sendPreviewToSelf", "_coreSendEmail",
     "updateHolidayCache", "getCachedHolidayData"}

\* The log of the run holds an error entry with this tag and this text
ErrorWith(tag, text) ==
    \E i \in 1..Len(log) :
        log[i] = [level |-> "error", context |-> tag, text |-> text]

\* No record, and no text that is not one, was stored when the run began
\* (a send run never removes or repairs a text that is not a record)
AbsentBefore == ~trace.stored /\ props.holidayCache.kind # "garbage"

\* The run reached _coreSendEmail; getCachedHolidayData was called in it
ReachedCore == trace.stage = "core"
CalledGetCached == op = "sendMonthlyEmail" \/ ReachedCore

\* A fetch of the run failed: the one of sendMonthlyEmail itself, or the
\* one inside processEmailTemplates with still no record stored
FirstFetchFailed == op = "sendMonthlyEmail" /\ AbsentBefore /\ ~trace.firstOk
CoreFetchFailed ==
    /\ ReachedCore /\ AbsentBefore /\ ~trace.fetchOk
    /\ op = "sendMonthlyEmail" => ~trace.firstOk

\* _coreSendEmail found the recipient, the subject or the body missing
CoreSettingMissing ==
    /\ ReachedCore
    /\ \/ ~Truthy(trace.recipient)
       \/ ~Truthy(trace.rendered.subject)
       \/ ~Truthy(trace.rendered.body)

\* _coreSendEmail had all it needs and no mail went out
SendEmailThrew == ReachedCore /\ ~CoreSettingMissing /\ outbox = <<>>

UnparseableReported ==
    /\ SendOpDone
    /\ op = "sendPreviewToSelf"
    /\ props.holidayCache.kind = "garbage"
    /\ ErrorWith("getCachedHolidayData", "JSON.parse failed")

\* The run of sendMonthlyEmail found no send date in the month
NotFoundRun == DailyRunDone /\ SendDateOfRun = NullDate

\* The entries of the log that report this text
ReportsOf(text) == {i \in 1..Len(log) : log[i].text = text}

\* C26: a run of sendMonthlyEmail that finds no send date in the month
\* reports it, and not as an error: the report is not an entry written by
\* logError, the way a failed fetch, a missing setting and a failed
\* sendEmail are reported.
C26_NotFoundReportedAsSkip ==
    NotFoundRun =>
        /\ ReportsOf("no valid send date") # {}
        /\ \A i \in ReportsOf("no valid send date") : log[i].level # "error"

(***************************************************************************)
(* Properties of the record of success                                     *)
(***************************************************************************)

\* The log of the run says a mail was sent
SentLogged ==
    \E i \in 1..Len(log) :
        log[i].level = "info" /\ log[i].text \in {"mail sent", "preview sent"}

\* C27: after a run of sendMonthlyEmail or sendPreviewToSelf the log says
\* that a mail was sent exactly if MailApp.sendEmail was called and
\* returned; where _coreSendEmail gave up or sendEmail threw, the log holds
\* the failure and no word of a mail sent.
C27_SentLoggedIffSent ==
    SendOpDone =>
        /\ SentLogged <=> outbox # <<>>
        /\ ReachedCore /\ outbox = <<>> => ErrorLogged({"_coreSendEmail"})

(***************************************************************************)
(* Properties of the month                                                 *)
(***************************************************************************)

\* The send date of the month by the holiday data stored at present
SendDateOfMonth ==
    GetSendDate(MaxYear, 12, HolidayDataOf(props).holidays, HolidayDataOf(props).workdays)

\* sendMonthlyEmail has run on every day of the month
MonthOver == clock = MonthLastDay /\ trace.ran = clock

\* C28: with sendMonthlyEmail run once on every day of the month so far,
\* the recipient and the templates set, no call of MailApp.sendEmail failing
\* and the holiday data staying the same, the mails sent so far are: one, on
\* the day getSendDate gives for the month, once that day's run is over;
\* none before it, and none at all if getSendDate gives no day.  At the end
\* of the month that is one mail, or none.
C28_OneMailOnSendDate ==
    Truthy(props.recipient) /\ trace.steady =>
        trace.sent = IF SendDateOfMonth # NullDate /\ trace.ran >= SendDateOfMonth
                     THEN <<SendDateOfMonth>>
                     ELSE <<>>

\* The month is over, the 25th was a holiday all month, and the one mail
\* went out on the 24th
C28_Witness ==
    /\ MonthOver
    /\ Truthy(props.recipient)
    /\ trace.steady
    /\ SendDateOfMonth = DaysFromCivil(MaxYear, 12, 24)
    /\ trace.sent = <<SendDateOfMonth>>

\* The month is over, it had no send date, and no mail went out
MonthWithoutSendDate ==
    /\ MonthOver
    /\ Truthy(props.recipient)
    /\ trace.steady
    /\ SendDateOfMonth = NullDate
    /\ trace.sent = <<>>

\* C29: with sendMonthlyEmail run once a day at most and updateHolidayCache
\* run in between, changing the stored sets or not, one mail at most goes
\* out in the month.
C29_AtMostOneMail == Len(trace.sent) <= 1

(***************************************************************************)
(* Properties of a refresh that fails                                      *)
(***************************************************************************)

\* The step is a call of updateHolidayCache whose fetch failed
FailedRefreshStep ==
    /\ pc' = "done" /\ op' = "updateHolidayCache"
    /\ trace'.before = props /\ ~trace'.fetch.ok

\* The step is a call of getCachedHolidayData with a record stored
ReadOfRecordStep ==
    /\ pc' = "done" /\ op' = "getCachedHolidayData"
    /\ trace'.before = props /\ Stored(props)

\* C30: a call of updateHolidayCache whose fetch (or parse) fails leaves
\* every property as it was, the stored record and its timestamp among
\* them, and a call of getCachedHolidayData with a record stored returns
\* the sets of that record and leaves it and its timestamp as they were: so
\* after a failed refresh every later getCachedHolidayData returns the
\* record stored before it, until a refresh succeeds.
C30_FailedRefreshKeepsRecord ==
    [][/\ FailedRefreshStep => props' = props
       /\ ReadOfRecordStep => ret' = StoredData(props) /\ props' = props]_vars

\* updateHolidayCache has run with a record stored and its fetch failed;
\* the record and its timestamp are those stored before
C30_Witness ==
    /\ UpdateDone
    /\ ~trace.fetch.ok
    /\ Stored(trace.before)
    /\ Stored(props)
    /\ StoredData(props) = StoredData(trace.before)
    /\ props.holidayCacheUpdated = trace.before.holidayCacheUpdated

=============================================================================
